---- MODULE Spec2Model ----
(***************************************************************************)
(* maluvm: the textual assembler (vm/src/asm.rs), the bytecode decoder     *)
(* (vm/src/parse.rs) and the interpreter (vm/src/interpreter.rs).          *)
(*                                                                         *)
(* Representation.                                                         *)
(*   - a source text is a sequence of one-character strings;               *)
(*   - a byte is a number in 0..255, a module a sequence of bytes;         *)
(*   - a u32 is the pair <<hi, lo>> of its 16-bit halves (the integers   *)
(*     of TLC are 32-bit signed, so 2^32 - 1 is not a number in it);       *)
(*   - an i32 is an integer in -2^31 .. 2^31 - 1;                          *)
(*   - lengths, positions and register ids are plain naturals;             *)
(*   - memory is its length and the map of its non-zero bytes.             *)
(***************************************************************************)
EXTENDS Integers, Sequences, FiniteSets, TLC

\* ------------------------------------------------------------------------
\* 32-bit words
\* ------------------------------------------------------------------------

W16 == 256 * 256

HALF16 == W16 \div 2

\* the u32 with value n, for 0 <= n < 2^31
U(n) == <<n \div W16, n % W16>>

\* the value of a u32 below 2^31
Val(a) == a[1] * W16 + a[2]

Small(a) == a[1] < HALF16

RECURSIVE Pow2(_)
Pow2(k) == IF k = 0 THEN 1 ELSE 2 * Pow2(k - 1)

\* u32::to_le_bytes / u32::from_le_bytes
ToLeBytes(a) == <<a[2] % 256, a[2] \div 256, a[1] % 256, a[1] \div 256>>

FromLeBytes(b) == <<b[3] + 256 * b[4], b[1] + 256 * b[2]>>

\* `n as u32` for an i32 n (two's complement bit pattern)
I32AsU32(n) ==
    IF n >= 0 THEN U(n)
    ELSE LET m == (n + 2147483647) + 1      \* n + 2^31, in 0 .. 2^31 - 1
         IN  <<(m \div W16) + HALF16, m % W16>>

\* a + b as a (carry, u32) pair: carry is TRUE when the sum is 2^32 or more
AddC(a, b) ==
    LET lo == a[2] + b[2]
        hi == a[1] + b[1] + (lo \div W16)
    IN  [carry |-> hi >= W16, v |-> <<hi % W16, lo % W16>>]

WrappingAdd(a, b) == AddC(a, b).v

\* two's complement negation
Neg32(a) == WrappingAdd(<<(W16 - 1) - a[1], (W16 - 1) - a[2]>>, U(1))

WrappingSub(a, b) == WrappingAdd(a, Neg32(b))

\* unsigned comparison
LtU(a, b) == a[1] < b[1] \/ (a[1] = b[1] /\ a[2] < b[2])

LeU(a, b) == a = b \/ LtU(a, b)

\* a * b by schoolbook multiplication on bytes: the low 32 bits and whether
\* the full product needs more
MulC(a, b) ==
    LET x == ToLeBytes(a)
        y == ToLeBytes(b)
        col(k) == LET idx == {i \in 1..4 : (k + 2 - i) \in 1..4}
                      RECURSIVE sum(_)
                      sum(S) == IF S = {} THEN 0
                                ELSE LET i == CHOOSE j \in S : TRUE
                                     IN  x[i] * y[k + 2 - i] + sum(S \ {i})
                  IN  sum(idx)
        c0 == col(0)
        c1 == col(1) + (c0 \div 256)
        c2 == col(2) + (c1 \div 256)
        c3 == col(3) + (c2 \div 256)
        c4 == col(4) + (c3 \div 256)
        c5 == col(5) + (c4 \div 256)
        c6 == col(6) + (c5 \div 256)
    IN  [carry |-> (c4 # 0) \/ (c5 # 0) \/ (c6 # 0),
         v     |-> FromLeBytes(<<c0 % 256, c1 % 256, c2 % 256, c3 % 256>>)]

\* one-bit shifts
Shl1(a) == <<(a[1] * 2 + (a[2] \div HALF16)) % W16, (a[2] * 2) % W16>>

Shr1(a) == <<a[1] \div 2, (a[2] \div 2) + (a[1] % 2) * HALF16>>

RECURSIVE ShlN(_, _)
ShlN(a, k) == IF k = 0 THEN a ELSE ShlN(Shl1(a), k - 1)

RECURSIVE ShrN(_, _)
ShrN(a, k) == IF k = 0 THEN a ELSE ShrN(Shr1(a), k - 1)

\* the shift count masked to 5 bits, as wrapping_shl / an unchecked >> do
ShiftMask(b) == b[2] % 32

\* bitwise operators, 16 bits at a time
RECURSIVE BitOp16(_, _, _, _)
BitOp16(f, x, y, n) ==
    IF n = 0 THEN 0
    ELSE LET bx == x % 2
             by == y % 2
             r  == CASE f = "and" -> IF bx = 1 /\ by = 1 THEN 1 ELSE 0
                     [] f = "or"  -> IF bx = 1 \/ by = 1 THEN 1 ELSE 0
                     [] OTHER     -> IF bx # by THEN 1 ELSE 0
         IN  r + 2 * BitOp16(f, x \div 2, y \div 2, n - 1)

BitOp(f, a, b) == <<BitOp16(f, a[1], b[1], 16), BitOp16(f, a[2], b[2], 16)>>

\* d * b for a digit d of 0..256, as a pair whose high half may exceed 16 bits
DigitTimes(d, b) == <<d * b[1] + ((d * b[2]) \div W16), (d * b[2]) % W16>>

\* x <= y, and x - y where x >= y, for such pairs
LePair(x, y) == x[1] < y[1] \/ (x[1] = y[1] /\ x[2] <= y[2])

SubPair(x, y) ==
    IF x[2] >= y[2] THEN <<x[1] - y[1], x[2] - y[2]>>
    ELSE <<x[1] - y[1] - 1, x[2] + W16 - y[2]>>

\* the remainder so far, with the next byte of the dividend brought down
BringDown(r, byte) == <<r[1] * 256 + (r[2] \div 256), (r[2] % 256) * 256 + byte>>

\* the digit of the quotient for the partial dividend t: the largest d with
\* d * b <= t
QuotientDigit(t, b) ==
    CHOOSE d \in 0..255 : LePair(DigitTimes(d, b), t) /\ ~LePair(DigitTimes(d + 1, b), t)

\* one step of the unsigned long division by b in base 256: s holds the
\* quotient and the remainder (below b) of the bytes taken so far
DivStep(s, byte, b) ==
    [q |-> BringDown(s.q, QuotientDigit(BringDown(s.r, byte), b)),
     r |-> SubPair(BringDown(s.r, byte),
                   DigitTimes(QuotientDigit(BringDown(s.r, byte), b), b))]

\* unsigned division, the bytes of a taken from the most significant down
DivU(a, b) ==
    DivStep(DivStep(DivStep(DivStep([q |-> U(0), r |-> U(0)],
                                    ToLeBytes(a)[4], b),
                            ToLeBytes(a)[3], b),
                    ToLeBytes(a)[2], b),
            ToLeBytes(a)[1], b).q

IsNeg(a) == a[1] >= HALF16

\* i32 division truncating toward zero, on bit patterns (b # 0, not MIN / -1)
DivS(a, b) ==
    LET ma == IF IsNeg(a) THEN Neg32(a) ELSE a
        mb == IF IsNeg(b) THEN Neg32(b) ELSE b
        q  == DivU(ma, mb)
    IN  IF IsNeg(a) # IsNeg(b) THEN Neg32(q) ELSE q

I32Min == <<HALF16, 0>>

MinusOne == <<W16 - 1, W16 - 1>>

\* `cond as u32`
BoolAsU32(c) == IF c THEN U(1) ELSE U(0)

\* ------------------------------------------------------------------------
\* vm/src/asm.rs: constants and the opcode catalog
\* ------------------------------------------------------------------------

BYTECODE_HEADER == <<109, 97, 108, 117>>      \* b"malu"

ENTRY_LABEL_NAME == <<"_", "_", "E", "N", "T", "R", "Y", "_", "_">>

CODE_START_ADDR_POS == 2 * 4

CODE_START == 3 * 4

\* BytecodeInfo::total_header_size
total_header_size == 3 * 4 + Len(BYTECODE_HEADER)

\* mod opcode
opcode ==
    [Nop |-> 1, Unreachable |-> 2, Drop |-> 3, Const |-> 4, Jmp |-> 5, JmpIf |-> 6,
     Branch |-> 7, BranchIf |-> 8, LocalGet |-> 9, LocalSet |-> 10, LocalTee |-> 11,
     GlobalGet |-> 12, GlobalSet |-> 14, GlobalTee |-> 15, Eq |-> 16, Eqz |-> 17,
     Add |-> 18, Sub |-> 19, Divs |-> 20, Divu |-> 21, Mul |-> 22, Neg |-> 23,
     Gt |-> 24, Lt |-> 25, Ge |-> 26, Le |-> 27, Shiftr |-> 28, Shiftl |-> 29,
     And |-> 30, Or |-> 31, Xor |-> 32, Call |-> 33, Return |-> 34, Store8 |-> 35,
     Store16 |-> 36, Store32 |-> 37, Load8u |-> 38, Load8s |-> 39, Load16s |-> 40,
     Load16u |-> 41, Load32s |-> 42, Load32u |-> 43, Extend8_32s |-> 44,
     Extend16_32s |-> 45, Extend8_32u |-> 46, Extend16_32u |-> 47, End |-> 48,
     PushArg |-> 49, DbgAssert |-> 50]

\* opcode::Syscall: used by the interpreter, declared in no source file;
\* the byte is the catalog's (0x33)
opcode_Syscall == 51

\* ------------------------------------------------------------------------
\* vm/src/asm.rs: text helpers
\* ------------------------------------------------------------------------

\* `let v = ...;` : F with v bound to the value
With(v, F(_)) == F(v)

None == [some |-> FALSE, s |-> <<>>]

Some(str) == [some |-> TRUE, s |-> str]

\* &s[i..] for a 0-based i
StrFrom(str, i) == SubSeq(str, i + 1, Len(str))

NoInfo == <<>>

\* AssembleError::new(self, kind)
AssembleError(p, kind, info) == [kind |-> kind, line |-> p.line, info |-> info]

Ok(v) == [ok |-> TRUE, v |-> v, panic |-> FALSE, err |-> NoInfo]

Err(e) == [ok |-> FALSE, v |-> NoInfo, panic |-> FALSE, err |-> e]

Panic(why) == [ok |-> FALSE, v |-> NoInfo, panic |-> TRUE, err |-> why]

\* Parser::slice_until
slice_until(p, rest, delim) ==
    LET hits == {i \in 1..Len(rest) : rest[i] = delim}
    IN  IF hits = {} THEN Err(AssembleError(p, "MissingDelimiter", NoInfo))
        ELSE LET end == CHOOSE i \in hits : \A j \in hits : i <= j
             IN  Ok([word |-> SubSeq(rest, 1, end - 1),
                     rest |-> Some(SubSeq(rest, end + 1, Len(rest)))])

\* Parser::skip_whitespace: the rest from the first character that is not
\* '\r', ' ' or '\n', and the number of '\n' passed
skip_whitespace(rest) ==
    LET stops == {i \in 1..Len(rest) : rest[i] \notin {"\r", " ", "\n"}}
        upto  == IF stops = {} THEN Len(rest)
                 ELSE (CHOOSE i \in stops : \A j \in stops : i <= j) - 1
    IN  [rest  |-> IF stops = {} THEN None ELSE Some(SubSeq(rest, upto + 1, Len(rest))),
         lines |-> Cardinality({i \in 1..upto : rest[i] = "\n"})]

\* char::to_digit
to_digit(c, radix) ==
    LET d == CASE c = "0" -> 0 [] c = "1" -> 1 [] c = "2" -> 2 [] c = "3" -> 3
               [] c = "4" -> 4 [] c = "5" -> 5 [] c = "6" -> 6 [] c = "7" -> 7
               [] c = "8" -> 8 [] c = "9" -> 9
               [] c \in {"a", "A"} -> 10 [] c \in {"b", "B"} -> 11
               [] c \in {"c", "C"} -> 12 [] c \in {"d", "D"} -> 13
               [] c \in {"e", "E"} -> 14 [] c \in {"f", "F"} -> 15
               [] OTHER -> 99
    IN  IF d < radix THEN d ELSE -1

I32_MAX == 2147483647

I32_MIN == -I32_MAX - 1

\* the digit loop of i32::from_str_radix: the value is accumulated on the
\* side of its sign, so that i32::MIN parses; acc is -|value so far|
RECURSIVE from_digits(_, _, _, _)
from_digits(digits, radix, negative, acc) ==
    IF digits = <<>> THEN [ok |-> TRUE, n |-> IF negative THEN acc ELSE -acc]
    ELSE LET d == to_digit(Head(digits), radix)
             \* floor(2^31 / radix)
             q31 == (I32_MAX \div radix) + (IF (I32_MAX % radix) + 1 = radix THEN 1 ELSE 0)
             most == IF ~negative THEN (I32_MAX - d) \div radix
                     ELSE IF d >= 1 THEN (I32_MAX - (d - 1)) \div radix
                     ELSE q31
         IN  IF d < 0 THEN [ok |-> FALSE, n |-> 0]                    \* InvalidDigit
             ELSE IF acc = I32_MIN \/ -acc > most THEN [ok |-> FALSE, n |-> 0]   \* overflow
             ELSE from_digits(StrFrom(digits, 1), radix, negative, acc * radix - d)

\* i32::from_str_radix
i32_from_str_radix(str, radix) ==
    IF str = <<>> \/ str = <<"+">> \/ str = <<"-">> THEN [ok |-> FALSE, n |-> 0]
    ELSE from_digits(IF Head(str) \in {"+", "-"} THEN StrFrom(str, 1) ELSE str,
                     radix, Head(str) = "-", 0)

\* impl_parse_num!(parse_i32, i32); .map_err(|e| AssembleError::new(self, e.into()))
map_err(p, r) == IF r.ok THEN Ok(r.n) ELSE Err(AssembleError(p, "UnableToParseInt", NoInfo))

parse_i32(p, str) ==
    IF str = <<>> THEN Panic("str[0..2] out of range")
    ELSE IF Len(str) >= 2 /\ SubSeq(str, 1, 2) = <<"0", "x">>
         THEN map_err(p, i32_from_str_radix(StrFrom(str, 2), 16))
    ELSE IF Len(str) >= 2 /\ SubSeq(str, 1, 2) = <<"0", "b">>
         THEN map_err(p, i32_from_str_radix(StrFrom(str, 2), 2))
    ELSE map_err(p, i32_from_str_radix(str, 10))

\* enum ArgType
AbsLabelRef(name) == [t |-> "AbsLabelRef", name |-> name, n |-> 0]

OffLabelRef(name) == [t |-> "OffLabelRef", name |-> name, n |-> 0]

Number(n) == [t |-> "Number", name |-> <<>>, n |-> n]

Register(r) == [t |-> "Register", name |-> <<>>, n |-> r]

\* Option<ArgType>::None
NoArg == [t |-> "None", name |-> <<>>, n |-> 0]

\* ArgType::size_bytes (0 for an op without operand)
ArgType_size_bytes(arg) ==
    CASE arg.t \in {"AbsLabelRef", "OffLabelRef", "Number"} -> 4
      [] arg.t = "Register" -> 1
      [] OTHER -> 0

\* Op::size_bytes
Op_size_bytes(op) == 1 + ArgType_size_bytes(op.arg)

\* Parser::parse_arg
parse_arg(p, str) ==
    IF str = <<>> THEN Panic("unwrap on None: empty argument")
    ELSE IF Head(str) = "@" THEN Ok(AbsLabelRef(StrFrom(str, 1)))
    ELSE IF Head(str) = "." THEN Ok(OffLabelRef(StrFrom(str, 1)))
    ELSE With(parse_i32(p, str), LAMBDA num :
         IF num.ok THEN Ok(Number(num.v)) ELSE num)

\* iter_op_args: str::split_whitespace
WhiteSpace == {" ", "\n", "\r", "\t"}

RECURSIVE iter_op_args(_)
iter_op_args(str) ==
    IF str = <<>> THEN <<>>
    ELSE IF Head(str) \in WhiteSpace THEN iter_op_args(StrFrom(str, 1))
    ELSE LET ws  == {i \in 1..Len(str) : str[i] \in WhiteSpace}
             end == IF ws = {} THEN Len(str) + 1 ELSE CHOOSE i \in ws : \A j \in ws : i <= j
         IN  <<SubSeq(str, 1, end - 1)>> \o iter_op_args(SubSeq(str, end, Len(str)))

\* Parser::arg_register: args is what is left of the statement's words
arg_register(p, args) ==
    IF args = <<>> THEN Err(AssembleError(p, "MissingArgument", NoInfo))
    ELSE With(parse_arg(p, Head(args)), LAMBDA a :
         IF ~a.ok THEN a
         ELSE IF a.v.t # "Number" THEN Err(AssembleError(p, "UnexpectedImmArgSize", NoInfo))
         ELSE IF a.v.n >= 0 /\ a.v.n < 255 THEN Ok(Register(a.v.n))
         ELSE Err(AssembleError(p, "UnexpectedRegisterId", a.v.n)))

\* Parser::arg_const
arg_const(p, args) ==
    IF args = <<>> THEN Err(AssembleError(p, "MissingArgument", NoInfo))
    ELSE parse_arg(p, Head(args))

\* an arm of the match in Parser::parse_op
Arm(op, arg) == [known |-> TRUE, opcode |-> op, arg |-> arg]

NoArm == [known |-> FALSE, opcode |-> 0, arg |-> "none"]

\* the match on op_name in Parser::parse_op: the opcode of the arm and the
\* argument parser it calls
match_op_name(op_name) ==
    CASE op_name = <<"n", "o", "p">> -> Arm(opcode.Nop, "none")
      [] op_name = <<"u", "n", "r", "e", "a", "c", "h", "a", "b", "l", "e">> -> Arm(opcode.Unreachable, "none")
      [] op_name = <<"d", "r", "o", "p">> -> Arm(opcode.Drop, "none")
      [] op_name = <<"c", "o", "n", "s", "t">> -> Arm(opcode.Const, "arg_const")
      [] op_name = <<"j", "m", "p">> -> Arm(opcode.Jmp, "none")
      [] op_name = <<"j", "m", "p", "_", "i", "f">> -> Arm(opcode.JmpIf, "none")
      [] op_name = <<"b", "r", "a", "n", "c", "h">> -> Arm(opcode.Branch, "none")
      [] op_name = <<"b", "r", "a", "n", "c", "h", "_", "i", "f">> -> Arm(opcode.BranchIf, "none")
      [] op_name = <<"l", "o", "c", "a", "l", "_", "g", "e", "t">> -> Arm(opcode.LocalGet, "arg_register")
      [] op_name = <<"l", "o", "c", "a", "l", "_", "s", "e", "t">> -> Arm(opcode.LocalSet, "arg_register")
      [] op_name = <<"l", "o", "c", "a", "l", "_", "t", "e", "e">> -> Arm(opcode.LocalTee, "arg_register")
      [] op_name = <<"g", "l", "o", "b", "a", "l", "_", "g", "e", "t">> -> Arm(opcode.GlobalGet, "arg_register")
      [] op_name = <<"g", "l", "o", "b", "a", "l", "_", "s", "e", "t">> -> Arm(opcode.GlobalSet, "arg_register")
      [] op_name = <<"g", "l", "o", "b", "a", "l", "_", "t", "e", "e">> -> Arm(opcode.GlobalTee, "arg_register")
      [] op_name = <<"e", "q">> -> Arm(opcode.Eq, "none")
      [] op_name = <<"e", "q", "z">> -> Arm(opcode.Eqz, "none")
      [] op_name = <<"a", "d", "d">> -> Arm(opcode.Add, "none")
      [] op_name = <<"s", "u", "b">> -> Arm(opcode.Sub, "none")
      [] op_name = <<"d", "i", "v", "_", "s">> -> Arm(opcode.Divs, "none")
      [] op_name = <<"d", "i", "v", "_", "u">> -> Arm(opcode.Divu, "none")
      [] op_name = <<"m", "u", "l">> -> Arm(opcode.Mul, "none")
      [] op_name = <<"n", "e", "g">> -> Arm(opcode.Neg, "none")
      [] op_name = <<"g", "t">> -> Arm(opcode.Gt, "none")
      [] op_name = <<"l", "t">> -> Arm(opcode.Lt, "none")
      [] op_name = <<"g", "e">> -> Arm(opcode.Ge, "none")
      [] op_name = <<"l", "e">> -> Arm(opcode.Le, "none")
      [] op_name = <<"s", "h", "i", "f", "t", "r">> -> Arm(opcode.Shiftr, "none")
      [] op_name = <<"s", "h", "i", "f", "t", "l">> -> Arm(opcode.Shiftl, "none")
      [] op_name = <<"c", "a", "l", "l">> -> Arm(opcode.Call, "none")
      [] op_name = <<"r", "e", "t", "u", "r", "n">> -> Arm(opcode.Return, "none")
      [] op_name = <<"s", "t", "o", "r", "e", "_", "8">> -> Arm(opcode.Store8, "arg_const")
      [] op_name = <<"s", "t", "o", "r", "e", "_", "1", "6">> -> Arm(opcode.Store16, "arg_const")
      [] op_name = <<"s", "t", "o", "r", "e", "_", "3", "2">> -> Arm(opcode.Store32, "arg_const")
      [] op_name = <<"l", "o", "a", "d", "_", "8", "_", "u">> -> Arm(opcode.Load8u, "arg_const")
      [] op_name = <<"l", "o", "a", "d", "_", "8", "_", "s">> -> Arm(opcode.Load8s, "arg_const")
      [] op_name = <<"l", "o", "a", "d", "_", "1", "6", "_", "s">> -> Arm(opcode.Load16s, "arg_const")
      [] op_name = <<"l", "o", "a", "d", "_", "1", "6", "_", "u">> -> Arm(opcode.Load16u, "arg_const")
      [] op_name = <<"l", "o", "a", "d", "_", "3", "2", "_", "s">> -> Arm(opcode.Load32s, "arg_const")
      [] op_name = <<"l", "o", "a", "d", "_", "3", "2", "_", "u">> -> Arm(opcode.Load32u, "arg_const")
      [] op_name = <<"e", "x", "t", "e", "n", "d", "_", "8", "_", "3", "2", "_", "s">> -> Arm(opcode.Extend16_32s, "none")
      [] op_name = <<"e", "x", "t", "e", "n", "d", "_", "1", "6", "_", "3", "2", "_", "s">> -> Arm(opcode.Extend16_32s, "none")
      [] op_name = <<"e", "x", "t", "e", "n", "d", "_", "8", "_", "3", "2", "_", "u">> -> Arm(opcode.Extend8_32u, "none")
      [] op_name = <<"e", "x", "t", "e", "n", "d", "_", "1", "6", "_", "3", "2", "_", "u">> -> Arm(opcode.Extend16_32u, "none")
      [] op_name = <<"e", "n", "d">> -> Arm(opcode.End, "none")
      [] op_name = <<"p", "u", "s", "h", "_", "a", "r", "g">> -> Arm(opcode.PushArg, "none")
      [] op_name = <<"d", "b", "g", "_", "a", "s", "s", "e", "r", "t">> -> Arm(opcode.DbgAssert, "none")
      [] OTHER -> NoArm

\* Parser::parse_op
parse_op(p, str) ==
    With(slice_until(p, str, ";"), LAMBDA statement :
    IF ~statement.ok THEN statement ELSE
    With(iter_op_args(statement.v.word), LAMBDA op_str :
    IF op_str = <<>> THEN Panic("unwrap on None: a statement without a word") ELSE
    With(match_op_name(Head(op_str)), LAMBDA arm :
    IF ~arm.known THEN Err(AssembleError(p, "UnknownOperation", NoInfo)) ELSE
    With(CASE arm.arg = "arg_register" -> arg_register(p, StrFrom(op_str, 1))
           [] arm.arg = "arg_const"    -> arg_const(p, StrFrom(op_str, 1))
           [] OTHER                    -> Ok(NoArg), LAMBDA arg :
    IF ~arg.ok THEN arg
    ELSE IF StrFrom(op_str, IF arm.arg = "none" THEN 1 ELSE 2) # <<>>
         THEN Err(AssembleError(p, "TooManyArguments", NoInfo))
    ELSE Ok([op   |-> [opcode |-> arm.opcode, arg |-> arg.v],
             rest |-> statement.v.rest])))))

\* Parser::parse_label
parse_label(p, str) ==
    LET label == slice_until(p, str, ":")
    IN  IF ~label.ok THEN label
        ELSE Ok([label |-> [name |-> label.v.word, position |-> p.op_size_bytes],
                 rest  |-> label.v.rest])

\* HashMap::insert
Insert(map, key, value) ==
    [k \in DOMAIN map \cup {key} |-> IF k = key THEN value ELSE map[k]]

\* a try_push_label that records a redefinition over the first definition
try_push_label_overwriting(p, name, position) ==
    Ok([parser |-> [p EXCEPT !.labels = Insert(p.labels, name, position)],
        id     |-> Cardinality(DOMAIN p.labels)])

\* Parser::try_push_label: the parser with the label recorded, and its LabelId
try_push_label(p, name, position) ==
    IF name \in DOMAIN p.labels
    THEN Err(AssembleError(p, "LabelAlreadyExists", name))
    ELSE Ok([parser |-> [p EXCEPT !.labels = Insert(p.labels, name, position)],
             id     |-> Cardinality(DOMAIN p.labels)])

\* Parser::try_get_label
try_get_label(p, id) ==
    IF id \in DOMAIN p.labels THEN Ok(p.labels[id])
    ELSE Err(AssembleError(p, "UnknownLabel", id))

\* a get_abs_label_addr that hands out the position in the code section
get_abs_label_addr_in_code(p, name) ==
    IF name \in DOMAIN p.labels THEN Ok(p.labels[name])
    ELSE try_get_label(p, name)

\* Parser::get_abs_label_addr
get_abs_label_addr(p, name) ==
    IF name \in DOMAIN p.labels THEN Ok(p.labels[name] + CODE_START)
    ELSE try_get_label(p, name)

\* Parser::get_off_label_addr
get_off_label_addr(p, name) ==
    IF name \in DOMAIN p.labels THEN Ok(p.op_size_bytes - p.labels[name])
    ELSE try_get_label(p, name)

\* enum RawArg
RawNum(n) == [t |-> "Num", v |-> n]

RawRegister(r) == [t |-> "Register", v |-> r]

NoRawArg == [t |-> "None", v |-> 0]

\* `addr as u32` of a label address that was looked up
label_arg(a) == IF a.ok THEN Ok(RawNum(I32AsU32(a.v))) ELSE a

\* RawArg::from_arg_type (Num holds a u32)
RawArg_from_arg_type(arg, p) ==
    CASE arg.t = "AbsLabelRef" -> label_arg(get_abs_label_addr(p, arg.name))
      [] arg.t = "OffLabelRef" -> label_arg(get_off_label_addr(p, arg.name))
      [] arg.t = "Number" -> Ok(RawNum(I32AsU32(arg.n)))
      [] arg.t = "Register" -> Ok(RawRegister(arg.n))
      [] OTHER -> Ok(NoRawArg)

\* RawOp::from_op
RawOp_from_op(op, p) ==
    With(RawArg_from_arg_type(op.arg, p), LAMBDA arg :
    IF ~arg.ok THEN arg ELSE Ok([opcode |-> op.opcode, arg |-> arg.v]))

\* RawArg::size_bytes (0 when the op has no operand)
RawArg_size_bytes(arg) ==
    CASE arg.t = "Register" -> 1
      [] arg.t = "Num" -> 4
      [] OTHER -> 0

\* RawOp::size_bytes
RawOp_size_bytes(op) == 1 + RawArg_size_bytes(op.arg)

\* RawArg::encode
RawArg_encode(arg) ==
    CASE arg.t = "Register" -> <<arg.v>>
      [] arg.t = "Num" -> ToLeBytes(arg.v)
      [] OTHER -> <<>>

\* RawOp::encode
RawOp_encode(op) == <<op.opcode>> \o RawArg_encode(op.arg)

\* enum Elem
ElemOp(op) == [kind |-> "Op", op |-> op, id |-> 0]

ElemConst(arg) == [kind |-> "Const", op |-> [opcode |-> opcode.Const, arg |-> arg], id |-> 0]

ElemLabel(id) == [kind |-> "Label", op |-> [opcode |-> 0, arg |-> NoArg], id |-> id]

\* Parser::parse_ops (an Elem::Const is an op with opcode::Const)
RECURSIVE parse_ops(_, _)
parse_ops(p, elems) ==
    IF elems = <<>> THEN Ok(<<>>)
    ELSE IF Head(elems).kind = "Label" THEN parse_ops(p, StrFrom(elems, 1))
    ELSE With(RawOp_from_op(Head(elems).op, p), LAMBDA raw :
         IF ~raw.ok THEN raw ELSE
         With(parse_ops(p, StrFrom(elems, 1)), LAMBDA more :
         IF ~more.ok THEN more ELSE Ok(<<raw.v>> \o more.v)))

\* a module info that counts the labels as instructions
get_bytecode_info_counting_labels(p) ==
    [code_size_bytes   |-> p.op_size_bytes,
     instruction_count |-> p.op_count + Cardinality(DOMAIN p.labels),
     code_start_offset |-> (IF ENTRY_LABEL_NAME \in DOMAIN p.labels
                            THEN p.labels[ENTRY_LABEL_NAME] ELSE 0) + CODE_START]

\* Parser::get_bytecode_info
get_bytecode_info(p) ==
    [code_size_bytes   |-> p.op_size_bytes,
     instruction_count |-> p.op_count,
     code_start_offset |-> (IF ENTRY_LABEL_NAME \in DOMAIN p.labels
                            THEN p.labels[ENTRY_LABEL_NAME] ELSE 0) + CODE_START]

\* a header with the entry address before the instruction count
to_bytecode_entry_first(info) ==
    BYTECODE_HEADER \o ToLeBytes(U(info.code_size_bytes))
                    \o ToLeBytes(U(info.code_start_offset))
                    \o ToLeBytes(U(info.instruction_count))

\* BytecodeInfo::to_bytecode
to_bytecode(info) ==
    BYTECODE_HEADER \o ToLeBytes(U(info.code_size_bytes))
                    \o ToLeBytes(U(info.instruction_count))
                    \o ToLeBytes(U(info.code_start_offset))

RECURSIVE EncodeAll(_)
EncodeAll(ops) == IF ops = <<>> THEN <<>> ELSE RawOp_encode(Head(ops)) \o EncodeAll(StrFrom(ops, 1))

\* Parser::as_bytecode
as_bytecode(p, ops) == to_bytecode(get_bytecode_info(p)) \o EncodeAll(ops)

\* Parser::new
Parser_new == [op_count |-> 0, op_size_bytes |-> 0, line |-> 0, labels |-> <<>>]

\* Parser::parse_elems as a function of the text: the loop from the parser
\* p with r left to read and elems read so far. The '*' arm consumes
\* nothing, so the loop never ends on it.
RECURSIVE parse_elems(_, _, _)
parse_elems(p, r, elems) ==
    IF ~r.some \/ r.s = <<>> THEN Ok([parser |-> p, elems |-> elems])
    ELSE CASE Head(r.s) \in {"\n", "\r", " "} ->
                With(skip_whitespace(r.s), LAMBDA w :
                parse_elems([p EXCEPT !.line = @ + w.lines], w.rest, elems))
           [] Head(r.s) = "#" ->
                With(slice_until(p, StrFrom(r.s, 1), ";"), LAMBDA statement :
                IF ~statement.ok THEN statement ELSE
                With(parse_arg(p, statement.v.word), LAMBDA arg :
                IF ~arg.ok THEN arg ELSE
                parse_elems([p EXCEPT !.op_size_bytes = @ + 5, !.op_count = @ + 1],
                            statement.v.rest, Append(elems, ElemConst(arg.v)))))
           [] Head(r.s) = "*" ->
                [ok |-> FALSE, v |-> NoInfo, panic |-> FALSE, err |-> "never returns"]
           [] Head(r.s) = ":" ->
                With(parse_label(p, StrFrom(r.s, 1)), LAMBDA l :
                IF ~l.ok THEN l ELSE
                With(try_push_label(p, l.v.label.name, l.v.label.position), LAMBDA id :
                IF ~id.ok THEN id ELSE
                parse_elems(id.v.parser, l.v.rest, Append(elems, ElemLabel(id.v.id)))))
           [] OTHER ->
                With(parse_op(p, r.s), LAMBDA o :
                IF ~o.ok THEN o ELSE
                parse_elems([p EXCEPT !.op_size_bytes = @ + Op_size_bytes(o.v.op),
                                      !.op_count = @ + 1],
                            o.v.rest, Append(elems, ElemOp(o.v.op))))

\* Parser::parse as a function of the text: the module bytes and the
\* labels found, or the error
Parser_parse(code) ==
    With(parse_elems(Parser_new, Some(code), <<>>), LAMBDA e :
    IF ~e.ok THEN e ELSE
    With(parse_ops(e.v.parser, e.v.elems), LAMBDA ops :
    IF ~ops.ok THEN ops
    ELSE Ok([code |-> as_bytecode(e.v.parser, ops.v), labels |-> e.v.parser.labels])))

\* ------------------------------------------------------------------------
\* vm/src/parse.rs: the bytecode decoder
\* ------------------------------------------------------------------------

\* MaybeRawOp
MaybeOp(op, arg) == [variant |-> "Op", opcode |-> op, arg |-> arg]

MaybeUnknown(byte) == [variant |-> "Unknown", opcode |-> byte, arg |-> NoRawArg]

\* try_parse_op on the bytes left in the reader: the item and the number of
\* bytes consumed, or eof when a read hits the end of the input
try_parse_op(bytes) ==
    IF bytes = <<>> THEN [eof |-> TRUE, item |-> MaybeUnknown(0), used |-> 0]
    ELSE
    LET op == Head(bytes)
        none == ( op \in {opcode.Nop, opcode.Unreachable, opcode.Drop, opcode.Jmp,
                          opcode.JmpIf, opcode.Branch, opcode.BranchIf}
                  \/ op \in opcode.Eq..opcode.Return
                  \/ op \in opcode.End..opcode.DbgAssert )
        reg  == op \in opcode.LocalGet..opcode.GlobalTee
        num  == op = opcode.Const \/ op \in opcode.Store8..opcode.Load32u
    IN  IF none THEN [eof |-> FALSE, item |-> MaybeOp(op, NoRawArg), used |-> 1]
        ELSE IF reg
        THEN (IF Len(bytes) < 2 THEN [eof |-> TRUE, item |-> MaybeUnknown(0), used |-> 0]
              ELSE [eof |-> FALSE, item |-> MaybeOp(op, RawRegister(bytes[2])), used |-> 2])
        ELSE IF num
        THEN (IF Len(bytes) < 5 THEN [eof |-> TRUE, item |-> MaybeUnknown(0), used |-> 0]
              ELSE [eof |-> FALSE,
                    item |-> MaybeOp(op, RawNum(FromLeBytes(SubSeq(bytes, 2, 5)))),
                    used |-> 5])
        ELSE [eof |-> FALSE, item |-> MaybeUnknown(op), used |-> 1]

\* ------------------------------------------------------------------------
\* vm/src/interpreter.rs
\* ------------------------------------------------------------------------

MIN_HEAP_SIZE == 65536

MAX_GLOBALS == 64

MAX_LOCALS == 64

MAX_ARGS == 12

\* Vec<u8>: the length and the non-zero bytes
ZeroMemory(len) == [len |-> len, bytes |-> [i \in {} |-> 0]]

MemByte(mem, i) == IF i \in DOMAIN mem.bytes THEN mem.bytes[i] ELSE 0

\* mem with the bytes of seq written at positions at, at + 1, ...
MemWrite(mem, at, seq) ==
    LET new(i) == IF i \in at..(at + Len(seq) - 1) THEN seq[i - at + 1] ELSE MemByte(mem, i)
        dom    == {i \in DOMAIN mem.bytes \cup at..(at + Len(seq) - 1) : new(i) # 0}
    IN  [mem EXCEPT !.bytes = [i \in dom |-> new(i)]]

\* Frame::empty
Frame_empty == [locals |-> [i \in 0..(MAX_LOCALS - 1) |-> U(0)],
                return_addr |-> U(CODE_START_ADDR_POS)]

\* impl Default for Interpreter
Interpreter_default ==
    [value_stack |-> <<>>, return_stack |-> <<>>, memory |-> ZeroMemory(0), pc |-> U(0),
     globals |-> [i \in 0..(MAX_GLOBALS - 1) |-> U(0)], args |-> <<>>,
     running |-> FALSE, assertion_failed |-> FALSE, start_pc_addr |-> U(0),
     bytecode_len |-> 0]

\* Result<_, InterpreterErrorType>, and a panic of the thread
ResOk == [kind |-> "Ok", err |-> "", arg |-> U(0)]

ResErr(err, arg) == [kind |-> "Err", err |-> err, arg |-> arg]

ResPanic(why) == [kind |-> "Panic", err |-> why, arg |-> U(0)]

\* one memory access attempted by a step: the address asked for, the
\* width, and whether bytes of memory were touched
Access(addr, width, hit) == [addr |-> addr, width |-> width, hit |-> hit]

\* <[u8]>::get(addr): the bounds check of read_u8 / store_u8
index_in_bounds(mem, addr) == Small(addr) /\ Val(addr) < mem.len

\* a bounds check that looks at the first byte of the range only
range_first_byte_in_bounds(mem, addr, size) == Small(addr) /\ Val(addr) < mem.len

\* <[u8]>::get(addr .. addr + size): the bounds check of the read_* and
\* store_* macros
range_in_bounds(mem, addr, size) == Small(addr) /\ Val(addr) + size <= mem.len

\* Interpreter::read_u8
read_u8(I, addr) ==
    IF index_in_bounds(I.memory, addr)
    THEN [ok |-> TRUE, v |-> MemByte(I.memory, Val(addr)), acc |-> Access(addr, 1, TRUE)]
    ELSE [ok |-> FALSE, v |-> 0, acc |-> Access(addr, 1, FALSE)]

\* interpreter_impl_read_op!: the size bytes at addr, little-endian first
read_bytes(I, addr, size) ==
    IF range_in_bounds(I.memory, addr, size)
    THEN [ok |-> TRUE, v |-> [i \in 1..size |-> MemByte(I.memory, Val(addr) + i - 1)],
          acc |-> Access(addr, size, TRUE)]
    ELSE [ok |-> FALSE, v |-> <<>>, acc |-> Access(addr, size, FALSE)]

\* Interpreter::read_u32 / read_i32 (the i32 is kept as its bit pattern)
read_u32(I, addr) ==
    LET r == read_bytes(I, addr, 4)
    IN  [ok |-> r.ok, v |-> IF r.ok THEN FromLeBytes(r.v) ELSE U(0), acc |-> r.acc]

\* Interpreter::read_u16, widened to u32
read_u16(I, addr) ==
    LET r == read_bytes(I, addr, 2)
    IN  [ok |-> r.ok, v |-> IF r.ok THEN U(r.v[1] + 256 * r.v[2]) ELSE U(0), acc |-> r.acc]

\* Interpreter::store_u8
store_u8(I, addr, byte) ==
    IF index_in_bounds(I.memory, addr)
    THEN [ok |-> TRUE, I |-> [I EXCEPT !.memory = MemWrite(@, Val(addr), <<byte>>)],
          acc |-> Access(addr, 1, TRUE)]
    ELSE [ok |-> FALSE, I |-> I, acc |-> Access(addr, 1, FALSE)]

\* interpreter_impl_store!
store_bytes(I, addr, seq) ==
    IF range_in_bounds(I.memory, addr, Len(seq))
    THEN [ok |-> TRUE, I |-> [I EXCEPT !.memory = MemWrite(@, Val(addr), seq)],
          acc |-> Access(addr, Len(seq), TRUE)]
    ELSE [ok |-> FALSE, I |-> I, acc |-> Access(addr, Len(seq), FALSE)]

\* is_bytecode_header_valid: "ok", "err" or "panic" (the slice bytecode[0..4]
\* of a shorter input)
is_bytecode_header_valid(bytecode) ==
    IF Len(bytecode) < 4 THEN "panic"
    ELSE IF SubSeq(bytecode, 1, 4) = <<109, 97, 108, 117>> THEN "ok"
    ELSE "err"

\* Interpreter::init_memory (bytecode.len() >= 4 and the image fits)
init_memory(I, bytecode) ==
    [I EXCEPT !.memory = MemWrite(@, 0, SubSeq(bytecode, 5, Len(bytecode)))]

\* what a call of the interpreter's API returns: the interpreter after it,
\* the result, the memory accesses attempted, and the calls of the host's
\* on_syscall it made
Out(I, res, log) == [I |-> I, res |-> res, log |-> log, host |-> <<>>]

\* a load that takes the initial pc from the word before the entry address
load_entry_from_previous_word(I, bytecode) ==
    With(read_u32(I, U(CODE_START_ADDR_POS - 4)), LAMBDA start_code_addr :
    IF ~start_code_addr.ok
    THEN Out(I, ResErr("AddrOutOfBounds", U(CODE_START_ADDR_POS - 4)), <<start_code_addr.acc>>)
    ELSE Out([I EXCEPT !.start_pc_addr = start_code_addr.v,
                       !.bytecode_len = Len(bytecode),
                       !.pc = start_code_addr.v],
             ResOk, <<start_code_addr.acc>>))

\* the tail of from_bytecode and of reset_all: the entry address is read
\* and becomes pc and start_pc_addr
load_entry(I, bytecode) ==
    With(read_u32(I, U(CODE_START_ADDR_POS)), LAMBDA start_code_addr :
    IF ~start_code_addr.ok
    THEN Out(I, ResErr("AddrOutOfBounds", U(CODE_START_ADDR_POS)), <<start_code_addr.acc>>)
    ELSE Out([I EXCEPT !.start_pc_addr = start_code_addr.v,
                       !.bytecode_len = Len(bytecode),
                       !.pc = start_code_addr.v],
             ResOk, <<start_code_addr.acc>>))

\* Interpreter::from_bytecode
from_bytecode(bytecode) ==
    CASE is_bytecode_header_valid(bytecode) = "panic" ->
           Out(Interpreter_default, ResPanic("bytecode[0..4] out of range"), <<>>)
      [] is_bytecode_header_valid(bytecode) = "err" ->
           Out(Interpreter_default, ResErr("InvalidBytecodeHeader", U(0)), <<>>)
      [] OTHER ->
           load_entry([init_memory([Interpreter_default EXCEPT
                                       !.memory = ZeroMemory(MIN_HEAP_SIZE + Len(bytecode))],
                                   bytecode)
                       EXCEPT !.return_stack = Append(@, Frame_empty)],
                      bytecode)

\* Interpreter::reset_all, up to self.assertion_failed = false
reset_clear(I) ==
    [I EXCEPT !.value_stack = <<>>,
              !.return_stack = <<>>,
              !.memory = ZeroMemory(@.len),
              !.globals = [i \in 0..(MAX_GLOBALS - 1) |-> U(0)],
              !.running = FALSE,
              !.args = <<>>,
              !.assertion_failed = FALSE]

\* a reset that leaves the globals as they are
reset_all_keeping_globals(I, bytecode) ==
    CASE is_bytecode_header_valid(bytecode) = "panic" ->
           Out(I, ResPanic("bytecode[0..4] out of range"), <<>>)
      [] is_bytecode_header_valid(bytecode) = "err" ->
           Out(I, ResErr("InvalidBytecodeHeader", U(0)), <<>>)
      [] Len(bytecode) - 4 > I.memory.len ->
           Out(reset_clear(I), ResPanic("memory[..len - 4] out of range"), <<>>)
      [] OTHER ->
           load_entry([init_memory(reset_clear(I), bytecode)
                       EXCEPT !.return_stack = Append(@, Frame_empty),
                              !.globals = I.globals],
                      bytecode)

\* Interpreter::reset_all (init_memory panics when the image is longer than
\* the memory)
reset_all(I, bytecode) ==
    CASE is_bytecode_header_valid(bytecode) = "panic" ->
           Out(I, ResPanic("bytecode[0..4] out of range"), <<>>)
      [] is_bytecode_header_valid(bytecode) = "err" ->
           Out(I, ResErr("InvalidBytecodeHeader", U(0)), <<>>)
      [] Len(bytecode) - 4 > I.memory.len ->
           Out(reset_clear(I), ResPanic("memory[..len - 4] out of range"), <<>>)
      [] OTHER ->
           load_entry([init_memory(reset_clear(I), bytecode)
                       EXCEPT !.return_stack = Append(@, Frame_empty)],
                      bytecode)

\* Interpreter::reset_pc
reset_pc(I) == [I EXCEPT !.pc = I.start_pc_addr]

\* Interpreter::push
push(I, val) == [I EXCEPT !.value_stack = Append(@, val)]

\* Interpreter::pop
pop(I) ==
    IF I.value_stack = <<>> THEN [ok |-> FALSE, I |-> I, v |-> U(0)]
    ELSE [ok |-> TRUE,
          I  |-> [I EXCEPT !.value_stack = SubSeq(@, 1, Len(@) - 1)],
          v  |-> I.value_stack[Len(I.value_stack)]]

\* Interpreter::peek
peek(I) ==
    IF I.value_stack = <<>> THEN [ok |-> FALSE, v |-> U(0)]
    ELSE [ok |-> TRUE, v |-> I.value_stack[Len(I.value_stack)]]

StackEmpty == ResErr("UnexpectedValStackEmpty", U(0))

\* a + b on u32 in the build at hand: with overflow checks an overflow
\* panics, without them the sum wraps
Plus(a, b, overflow_checks) ==
    [panic |-> AddC(a, b).carry /\ overflow_checks, v |-> AddC(a, b).v]

\* a try_jump_to that takes any address
try_jump_to_unchecked(I, addr) == [ok |-> TRUE, I |-> [I EXCEPT !.pc = addr]]

\* Interpreter::try_jump_to
try_jump_to(I, addr) ==
    IF ~LtU(addr, U(I.memory.len)) THEN [ok |-> FALSE, I |-> I]
    ELSE [ok |-> TRUE, I |-> [I EXCEPT !.pc = addr]]

\* self.pc += n
advance(I, n) == [I EXCEPT !.pc = WrappingAdd(@, U(n))]

\* Interpreter::read_imm_u8
read_imm_u8(I, offset) == read_u8(I, WrappingAdd(I.pc, U(offset)))

\* Interpreter::read_imm_u32
read_imm_u32(I, offset) == read_u32(I, WrappingAdd(I.pc, U(offset)))

\* a frame that takes the arguments in the reverse of their push order
create_frame_reversing_args(I) ==
    [I EXCEPT !.return_stack =
        Append(@, [locals |-> [i \in 0..(MAX_LOCALS - 1) |->
                                  IF i < Len(I.args) THEN I.args[Len(I.args) - i] ELSE U(0)],
                   return_addr |-> WrappingAdd(I.pc, U(1))])]

\* Interpreter::create_frame
create_frame(I) ==
    [I EXCEPT !.return_stack =
        Append(@, [locals |-> [i \in 0..(MAX_LOCALS - 1) |->
                                  IF i < Len(I.args) THEN I.args[i + 1] ELSE U(0)],
                   return_addr |-> WrappingAdd(I.pc, U(1))])]

\* the value a binary instruction pushes for operands a and b, or a panic
OkValue(v) == [panic |-> FALSE, v |-> v]

Overflow(c, v, overflow_checks) == [panic |-> c /\ overflow_checks, v |-> v]

BinopValue(op, a, b, overflow_checks) ==
    CASE op = opcode.Add -> OkValue(WrappingAdd(a, b))
      [] op = opcode.Sub -> OkValue(WrappingSub(a, b))
      [] op = opcode.Mul -> With(MulC(a, b), LAMBDA m : Overflow(m.carry, m.v, overflow_checks))
      [] op = opcode.Divu -> IF b = U(0) THEN [panic |-> TRUE, v |-> U(0)]
                             ELSE OkValue(DivU(a, b))
      [] op = opcode.Divs -> IF b = U(0) \/ (a = I32Min /\ b = MinusOne)
                             THEN [panic |-> TRUE, v |-> U(0)]
                             ELSE OkValue(DivS(a, b))
      [] op = opcode.Lt -> OkValue(BoolAsU32(LtU(a, b)))
      [] op = opcode.Gt -> OkValue(BoolAsU32(LtU(b, a)))
      [] op = opcode.Ge -> OkValue(BoolAsU32(LeU(b, a)))
      [] op = opcode.Le -> OkValue(BoolAsU32(LeU(a, b)))
      [] op = opcode.And -> OkValue(BitOp("and", a, b))
      [] op = opcode.Or -> OkValue(BitOp("or", a, b))
      [] op = opcode.Xor -> OkValue(BitOp("xor", a, b))
      [] op = opcode.Shiftl -> OkValue(ShlN(a, ShiftMask(b)))
      [] op = opcode.Shiftr -> Overflow(~LtU(b, U(32)), ShrN(a, ShiftMask(b)), overflow_checks)

\* do_binop!
do_binop(I, log, op, overflow_checks) ==
    With(pop(I), LAMBDA b :
    IF ~b.ok THEN Out(I, StackEmpty, log) ELSE
    With(pop(b.I), LAMBDA a :
    IF ~a.ok THEN Out(b.I, StackEmpty, log) ELSE
    With(BinopValue(op, a.v, b.v, overflow_checks), LAMBDA r :
    IF r.panic THEN Out(a.I, ResPanic("arithmetic"), log)
    ELSE Out(advance(push(a.I, r.v), 1), ResOk, log))))

\* if cond { self.try_jump_to(addr)? } else { self.pc += 1 }
jump_if(I, log, cond, addr) ==
    IF cond = U(0) THEN Out(advance(I, 1), ResOk, log)
    ELSE With(try_jump_to(I, addr), LAMBDA j :
         IF j.ok THEN Out(j.I, ResOk, log) ELSE Out(I, ResErr("InvalidJumpAddr", addr), log))

\* Interpreter::exec_jmp
exec_jmp(I, log) ==
    With(pop(I), LAMBDA addr :
    IF ~addr.ok THEN Out(I, StackEmpty, log)
    ELSE jump_if(addr.I, log, U(1), addr.v))

\* a JmpIf arm that pops the condition first and the target second
exec_jmp_if_cond_first(I, log) ==
    With(pop(I), LAMBDA cond :
    IF ~cond.ok THEN Out(I, StackEmpty, log) ELSE
    With(pop(cond.I), LAMBDA addr :
    IF ~addr.ok THEN Out(cond.I, StackEmpty, log)
    ELSE jump_if(addr.I, log, cond.v, addr.v)))

\* the JmpIf arm
exec_jmp_if(I, log) ==
    With(pop(I), LAMBDA addr :
    IF ~addr.ok THEN Out(I, StackEmpty, log) ELSE
    With(pop(addr.I), LAMBDA cond :
    IF ~cond.ok THEN Out(addr.I, StackEmpty, log)
    ELSE jump_if(cond.I, log, cond.v, addr.v)))

\* Interpreter::exec_branch
exec_branch(I, log, overflow_checks) ==
    With(pop(I), LAMBDA off :
    IF ~off.ok THEN Out(I, StackEmpty, log) ELSE
    With(Plus(off.v, I.pc, overflow_checks), LAMBDA addr :
    IF addr.panic THEN Out(off.I, ResPanic("attempt to add with overflow"), log)
    ELSE jump_if(off.I, log, U(1), addr.v)))

\* the Branch arm: Ok(_ = self.exec_branch()), the result is dropped
exec_branch_arm(I, log, overflow_checks) ==
    With(exec_branch(I, log, overflow_checks), LAMBDA r :
    IF r.res.kind = "Panic" THEN r ELSE Out(r.I, ResOk, r.log))

\* the BranchIf arm
exec_branch_if(I, log, overflow_checks) ==
    With(pop(I), LAMBDA off :
    IF ~off.ok THEN Out(I, StackEmpty, log) ELSE
    With(Plus(off.v, I.pc, overflow_checks), LAMBDA addr :
    IF addr.panic THEN Out(off.I, ResPanic("attempt to add with overflow"), log) ELSE
    With(pop(off.I), LAMBDA cond :
    IF ~cond.ok THEN Out(off.I, StackEmpty, log)
    ELSE jump_if(cond.I, log, cond.v, addr.v))))

\* a register id that was read: in range for a table of size n, else err
register_id(I, log, id, n, err) ==
    IF ~id.ok THEN Out(I, ResErr("AddrOutOfBounds", id.acc.addr), Append(log, id.acc))
    ELSE IF id.v >= n THEN Out(I, ResErr(err, U(id.v)), Append(log, id.acc))
    ELSE Out(I, ResOk, Append(log, id.acc))

\* Interpreter::read_local; current_frame unwraps the top of the return stack
read_local(I, log, id_arg_offset) ==
    With(read_imm_u8(I, id_arg_offset), LAMBDA id :
    IF id.ok /\ I.return_stack = <<>>
    THEN [v |-> U(0), out |-> Out(I, ResPanic("unwrap on None: current_frame"), Append(log, id.acc))]
    ELSE [v   |-> IF id.ok /\ id.v < MAX_LOCALS
                  THEN I.return_stack[Len(I.return_stack)].locals[id.v] ELSE U(0),
          out |-> register_id(I, log, id, MAX_LOCALS, "InvalidLocalId")])

\* Interpreter::read_global
read_global(I, log, id_arg_offset) ==
    With(read_imm_u8(I, id_arg_offset), LAMBDA id :
    [v   |-> IF id.ok /\ id.v < MAX_GLOBALS THEN I.globals[id.v] ELSE U(0),
     out |-> register_id(I, log, id, MAX_GLOBALS, "InvalidLocalId")])

\* a set_local that writes the local of the bottom frame
set_local_in_bottom_frame(I, log, id_arg_offset, value) ==
    With(read_imm_u8(I, id_arg_offset), LAMBDA id :
    IF id.ok /\ I.return_stack = <<>>
    THEN Out(I, ResPanic("unwrap on None: current_frame_mut"), Append(log, id.acc))
    ELSE IF id.ok /\ id.v < MAX_LOCALS
    THEN Out([I EXCEPT !.return_stack[1].locals[id.v] = value],
             ResOk, Append(log, id.acc))
    ELSE register_id(I, log, id, MAX_LOCALS, "InvalidLocalId"))

\* Interpreter::set_local
set_local(I, log, id_arg_offset, value) ==
    With(read_imm_u8(I, id_arg_offset), LAMBDA id :
    IF id.ok /\ I.return_stack = <<>>
    THEN Out(I, ResPanic("unwrap on None: current_frame_mut"), Append(log, id.acc))
    ELSE IF id.ok /\ id.v < MAX_LOCALS
    THEN Out([I EXCEPT !.return_stack[Len(I.return_stack)].locals[id.v] = value],
             ResOk, Append(log, id.acc))
    ELSE register_id(I, log, id, MAX_LOCALS, "InvalidLocalId"))

\* a set_global that writes the local of the same index as well
set_global_and_local(I, log, id_arg_offset, value) ==
    With(read_imm_u8(I, id_arg_offset), LAMBDA id :
    IF id.ok /\ id.v < MAX_GLOBALS /\ I.return_stack # <<>>
    THEN Out([I EXCEPT !.globals[id.v] = value,
                       !.return_stack[Len(I.return_stack)].locals[id.v] = value],
             ResOk, Append(log, id.acc))
    ELSE register_id(I, log, id, MAX_GLOBALS, "InvalidGlobalId"))

\* Interpreter::set_global
set_global(I, log, id_arg_offset, value) ==
    With(read_imm_u8(I, id_arg_offset), LAMBDA id :
    IF id.ok /\ id.v < MAX_GLOBALS
    THEN Out([I EXCEPT !.globals[id.v] = value], ResOk, Append(log, id.acc))
    ELSE register_id(I, log, id, MAX_GLOBALS, "InvalidGlobalId"))

\* r, with pc advanced by n when r is Ok: `...?; self.pc += n; Ok(())`
then_advance(r, n) == IF r.res.kind = "Ok" THEN Out(advance(r.I, n), ResOk, r.log) ELSE r

\* the LocalGet and GlobalGet arms: g is what read_local / read_global gave
exec_get(I, g) == IF g.out.res.kind = "Ok" THEN then_advance(Out(push(I, g.v), ResOk, g.out.log), 2)
                  ELSE g.out

\* the LocalSet and GlobalSet arms
exec_set(I, log, op) ==
    With(pop(I), LAMBDA val :
    IF ~val.ok THEN Out(I, StackEmpty, log)
    ELSE IF op = opcode.LocalSet THEN then_advance(set_local(val.I, log, 1, val.v), 2)
    ELSE then_advance(set_global(val.I, log, 1, val.v), 2))

\* the LocalTee and GlobalTee arms
exec_tee(I, log, op) ==
    With(peek(I), LAMBDA val :
    IF ~val.ok THEN Out(I, StackEmpty, log)
    ELSE IF op = opcode.LocalTee THEN then_advance(set_local(I, log, 1, val.v), 2)
    ELSE then_advance(set_global(I, log, 1, val.v), 2))

\* a narrowing that keeps the high bytes of the value
StoreHighBytes(op, value) ==
    SubSeq(ToLeBytes(value),
           CASE op = opcode.Store8 -> 4 [] op = opcode.Store16 -> 3 [] OTHER -> 1, 4)

\* `value as u8`, `value as u16`, value: the bytes a store of this opcode writes
StoreBytes(op, value) ==
    SubSeq(ToLeBytes(value), 1,
           CASE op = opcode.Store8 -> 1 [] op = opcode.Store16 -> 2 [] OTHER -> 4)

\* Interpreter::read_store_args and the Store8 / Store16 / Store32 arms
exec_store(I, log, op, overflow_checks) ==
    With(read_imm_u32(I, 1), LAMBDA offset :
    IF ~offset.ok THEN Out(I, ResErr("AddrOutOfBounds", offset.acc.addr), Append(log, offset.acc))
    ELSE
    With(pop(I), LAMBDA value :
    IF ~value.ok THEN Out(I, StackEmpty, Append(log, offset.acc)) ELSE
    With(pop(value.I), LAMBDA base :
    IF ~base.ok THEN Out(value.I, StackEmpty, Append(log, offset.acc)) ELSE
    With(Plus(base.v, offset.v, overflow_checks), LAMBDA addr :
    IF addr.panic
    THEN Out(base.I, ResPanic("attempt to add with overflow"), Append(log, offset.acc))
    ELSE
    With(IF op = opcode.Store8 THEN store_u8(base.I, addr.v, StoreBytes(op, value.v)[1])
         ELSE store_bytes(base.I, addr.v, StoreBytes(op, value.v)), LAMBDA st :
    IF ~st.ok THEN Out(base.I, ResErr("AddrOutOfBounds", addr.v), log \o <<offset.acc, st.acc>>)
    ELSE Out(advance(st.I, 5), ResOk, log \o <<offset.acc, st.acc>>))))))

\* the read of a load of this opcode, widened to u32
LoadValue(I, op, addr) ==
    CASE op = opcode.Load8u ->
           With(read_u8(I, addr), LAMBDA r : [ok |-> r.ok, v |-> U(r.v), acc |-> r.acc])
      [] op = opcode.Load16u -> read_u16(I, addr)
      [] OTHER -> read_u32(I, addr)

\* the Load8u / Load16u / Load32u arms
exec_load(I, log, op, overflow_checks) ==
    With(read_imm_u32(I, 1), LAMBDA offset :
    IF ~offset.ok THEN Out(I, ResErr("AddrOutOfBounds", offset.acc.addr), Append(log, offset.acc))
    ELSE
    With(pop(I), LAMBDA base :
    IF ~base.ok THEN Out(I, StackEmpty, Append(log, offset.acc)) ELSE
    With(Plus(offset.v, base.v, overflow_checks), LAMBDA addr :
    IF addr.panic
    THEN Out(base.I, ResPanic("attempt to add with overflow"), Append(log, offset.acc))
    ELSE
    With(LoadValue(base.I, op, addr.v), LAMBDA ld :
    IF ~ld.ok THEN Out(base.I, ResErr("AddrOutOfBounds", addr.v), log \o <<offset.acc, ld.acc>>)
    ELSE Out(advance(push(base.I, ld.v), 5), ResOk, log \o <<offset.acc, ld.acc>>)))))

\* the Drop arm
exec_drop(I, log) ==
    With(pop(I), LAMBDA v :
    IF ~v.ok THEN Out(I, StackEmpty, log) ELSE Out(advance(v.I, 1), ResOk, log))

\* the Const arm
exec_const(I, log) ==
    With(read_imm_u32(I, 1), LAMBDA arg :
    IF ~arg.ok THEN Out(I, ResErr("AddrOutOfBounds", arg.acc.addr), Append(log, arg.acc))
    ELSE Out(advance(push(I, arg.v), 5), ResOk, Append(log, arg.acc)))

\* a PushArg arm that refuses only when args holds more than MAX_ARGS values
exec_push_arg_past_full(I, log) ==
    IF Len(I.args) > MAX_ARGS THEN Out(I, ResErr("ArgStackFull", U(0)), log)
    ELSE With(pop(I), LAMBDA arg :
         IF ~arg.ok THEN Out(I, StackEmpty, log)
         ELSE Out(advance([arg.I EXCEPT !.args = Append(@, arg.v)], 1), ResOk, log))

\* the PushArg arm
exec_push_arg(I, log) ==
    IF Len(I.args) >= MAX_ARGS THEN Out(I, ResErr("ArgStackFull", U(0)), log)
    ELSE With(pop(I), LAMBDA arg :
         IF ~arg.ok THEN Out(I, StackEmpty, log)
         ELSE Out(advance([arg.I EXCEPT !.args = Append(@, arg.v)], 1), ResOk, log))

\* a Call arm that pushes the frame before it looks at the address
exec_call_frame_first(I, log) ==
    With(pop(I), LAMBDA addr :
    IF ~addr.ok THEN Out(I, StackEmpty, log)
    ELSE IF ~LtU(addr.v, U(I.memory.len))
         THEN Out(create_frame(addr.I), ResErr("InvalidJumpAddr", addr.v), log)
    ELSE Out([create_frame(addr.I) EXCEPT !.pc = addr.v, !.args = <<>>], ResOk, log))

\* the Call arm
exec_call(I, log) ==
    With(pop(I), LAMBDA addr :
    IF ~addr.ok THEN Out(I, StackEmpty, log)
    ELSE IF ~LtU(addr.v, U(I.memory.len))
         THEN Out(addr.I, ResErr("InvalidJumpAddr", addr.v), log)
    ELSE Out([create_frame(addr.I) EXCEPT !.pc = addr.v, !.args = <<>>], ResOk, log))

\* the Return arm; last_frame is the frame popped
return_to(I, log, last_frame) ==
    IF last_frame.return_addr = U(0) THEN Out([I EXCEPT !.running = FALSE], ResOk, log)
    ELSE Out([I EXCEPT !.pc = last_frame.return_addr], ResOk, log)

exec_return(I, log) ==
    IF I.return_stack = <<>> THEN Out(I, ResErr("UnexpectedEmptyFrameStack", U(0)), log)
    ELSE return_to([I EXCEPT !.return_stack = SubSeq(@, 1, Len(@) - 1)], log,
                   I.return_stack[Len(I.return_stack)])

\* a DbgAssert arm that records the failure and lets run() go on
exec_dbg_assert_still_running(I, log) ==
    With(pop(I), LAMBDA cond :
    IF ~cond.ok THEN Out(I, StackEmpty, log)
    ELSE IF cond.v # U(0) THEN Out(advance(cond.I, 1), ResOk, log)
    ELSE Out([cond.I EXCEPT !.assertion_failed = TRUE], ResOk, log))

\* a DbgAssert arm whose passing assertion clears the record of a failure
exec_dbg_assert_clearing_flag(I, log) ==
    With(pop(I), LAMBDA cond :
    IF ~cond.ok THEN Out(I, StackEmpty, log)
    ELSE IF cond.v # U(0)
         THEN Out(advance([cond.I EXCEPT !.assertion_failed = FALSE], 1), ResOk, log)
    ELSE Out([cond.I EXCEPT !.running = FALSE, !.assertion_failed = TRUE], ResOk, log))

\* the DbgAssert arm
exec_dbg_assert(I, log) ==
    With(pop(I), LAMBDA cond :
    IF ~cond.ok THEN Out(I, StackEmpty, log)
    ELSE IF cond.v # U(0) THEN Out(advance(cond.I, 1), ResOk, log)
    ELSE Out([cond.I EXCEPT !.running = FALSE, !.assertion_failed = TRUE], ResOk, log))

\* a Syscall arm that hands the handler the arguments and keeps them
exec_syscall_keeping_args(I, log, ret) ==
    With(pop(I), LAMBDA id :
    IF ~id.ok THEN Out(I, StackEmpty, log)
    ELSE [Out(push(id.I, ret), ResOk, log)
            EXCEPT !.host = <<[id |-> id.v, args |-> id.I.args, ret |-> ret]>>])

\* the Syscall arm; ret is what the handler's on_syscall returns for the id
\* and the clone of args it is given (the handlers of the repository leave
\* the interpreter as it is)
exec_syscall(I, log, ret) ==
    With(pop(I), LAMBDA id :
    IF ~id.ok THEN Out(I, StackEmpty, log)
    ELSE [Out(push([id.I EXCEPT !.args = <<>>], ret), ResOk, log)
            EXCEPT !.host = <<[id |-> id.v, args |-> id.I.args, ret |-> ret]>>])

\* the match of exec_next_op on the opcode that was fetched
exec_op(I, log, op, ret, overflow_checks) ==
    CASE op = opcode.Nop -> Out(advance(I, 1), ResOk, log)
      [] op = opcode.End -> Out([I EXCEPT !.running = FALSE], ResOk, log)
      [] op = opcode.Unreachable -> Out(I, ResErr("ReachedUnreachable", U(0)), log)
      [] op = opcode.Drop -> exec_drop(I, log)
      [] op = opcode.Const -> exec_const(I, log)
      [] op = opcode.Jmp -> exec_jmp(I, log)
      [] op = opcode.JmpIf -> exec_jmp_if(I, log)
      [] op = opcode.Branch -> exec_branch_arm(I, log, overflow_checks)
      [] op = opcode.BranchIf -> exec_branch_if(I, log, overflow_checks)
      [] op = opcode.LocalGet -> exec_get(I, read_local(I, log, 1))
      [] op = opcode.GlobalGet -> exec_get(I, read_global(I, log, 1))
      [] op \in {opcode.LocalSet, opcode.GlobalSet} -> exec_set(I, log, op)
      [] op \in {opcode.LocalTee, opcode.GlobalTee} -> exec_tee(I, log, op)
      [] op \in {opcode.Add, opcode.Sub, opcode.Mul, opcode.Divu, opcode.Divs,
                 opcode.Lt, opcode.Gt, opcode.Ge, opcode.Le, opcode.And, opcode.Or,
                 opcode.Xor, opcode.Shiftl, opcode.Shiftr} -> do_binop(I, log, op, overflow_checks)
      [] op \in {opcode.Store8, opcode.Store16, opcode.Store32} ->
           exec_store(I, log, op, overflow_checks)
      [] op \in {opcode.Load8u, opcode.Load16u, opcode.Load32u} ->
           exec_load(I, log, op, overflow_checks)
      [] op = opcode.PushArg -> exec_push_arg(I, log)
      [] op = opcode.Call -> exec_call(I, log)
      [] op = opcode.Return -> exec_return(I, log)
      [] op = opcode.DbgAssert -> exec_dbg_assert(I, log)
      [] op = opcode_Syscall -> exec_syscall(I, log, ret)
      [] OTHER -> Out(I, ResPanic("not yet implemented"), log)

\* Interpreter::exec_next_op
exec_next_op(I, ret, overflow_checks) ==
    With(read_u8(I, I.pc), LAMBDA f :
    IF ~f.ok THEN Out(I, ResErr("AddrOutOfBounds", I.pc), <<f.acc>>)
    ELSE exec_op(I, <<f.acc>>, f.v, ret, overflow_checks))

\* try_parse_ops_from_bytecode: the items the iterator yields before the
\* reader reports UnexpectedEof
RECURSIVE try_parse_ops_from_bytecode(_)
try_parse_ops_from_bytecode(bytes) ==
    With(try_parse_op(bytes), LAMBDA r :
    IF r.eof THEN <<>>
    ELSE <<r.item>> \o try_parse_ops_from_bytecode(StrFrom(bytes, r.used)))

\* the code section of a module: what follows the 16 header bytes
code_section(bytecode) == StrFrom(bytecode, total_header_size)

\* ------------------------------------------------------------------------
\* The inputs: source texts (sequences of characters) and raw modules
\* ------------------------------------------------------------------------

\* programs with a story: the examples of the tests, the edges of memory,
\* the statements the assembler rejects
Scenarios == {
    \* return;
    <<"r", "e", "t", "u", "r", "n", ";">>,
    \* #9; #100; #7; store_8 0; #3; global_set 1; #4; local_set 2; #1; push_arg; #0; dbg_assert;
    <<"#", "9", ";", " ", "#", "1", "0", "0", ";", " ", "#", "7", ";", " ", "s", "t", "o", "r", "e", "_", "8", " ", "0", ";", " ", "#", "3", ";", " ", "g", "l", "o", "b", "a", "l", "_", "s", "e", "t", " ", "1", ";", " ", "#", "4", ";", " ", "l", "o", "c", "a", "l", "_", "s", "e", "t", " ", "2", ";", " ", "#", "1", ";", " ", "p", "u", "s", "h", "_", "a", "r", "g", ";", " ", "#", "0", ";", " ", "d", "b", "g", "_", "a", "s", "s", "e", "r", "t", ";">>,
    \* #1; #2; add; end;
    <<"#", "1", ";", " ", "#", "2", ";", " ", "a", "d", "d", ";", " ", "e", "n", "d", ";">>,
    \* #1; #2; gt; #@if; jmp_if; :else: #0x25; end; :if: unreachable;
    <<"#", "1", ";", " ", "#", "2", ";", " ", "g", "t", ";", " ", "#", "@", "i", "f", ";", " ", "j", "m", "p", "_", "i", "f", ";", " ", ":", "e", "l", "s", "e", ":", " ", "#", "0", "x", "2", "5", ";", " ", "e", "n", "d", ";", " ", ":", "i", "f", ":", " ", "u", "n", "r", "e", "a", "c", "h", "a", "b", "l", "e", ";">>,
    \* #2; #1; gt; #@if; jmp_if; :else: #0x25; end; :if: unreachable;
    <<"#", "2", ";", " ", "#", "1", ";", " ", "g", "t", ";", " ", "#", "@", "i", "f", ";", " ", "j", "m", "p", "_", "i", "f", ";", " ", ":", "e", "l", "s", "e", ":", " ", "#", "0", "x", "2", "5", ";", " ", "e", "n", "d", ";", " ", ":", "i", "f", ":", " ", "u", "n", "r", "e", "a", "c", "h", "a", "b", "l", "e", ";">>,
    \* #5; push_arg; #@f; call; end; :f: local_get 0; return;
    <<"#", "5", ";", " ", "p", "u", "s", "h", "_", "a", "r", "g", ";", " ", "#", "@", "f", ";", " ", "c", "a", "l", "l", ";", " ", "e", "n", "d", ";", " ", ":", "f", ":", " ", "l", "o", "c", "a", "l", "_", "g", "e", "t", " ", "0", ";", " ", "r", "e", "t", "u", "r", "n", ";">>,
    \* #@f; call; end; :f: return;
    <<"#", "@", "f", ";", " ", "c", "a", "l", "l", ";", " ", "e", "n", "d", ";", " ", ":", "f", ":", " ", "r", "e", "t", "u", "r", "n", ";">>,
    \* unreachable; :__ENTRY__: #7; end;
    <<"u", "n", "r", "e", "a", "c", "h", "a", "b", "l", "e", ";", " ", ":", "_", "_", "E", "N", "T", "R", "Y", "_", "_", ":", " ", "#", "7", ";", " ", "e", "n", "d", ";">>,
    \* #1; dbg_assert; #0; dbg_assert; end;
    <<"#", "1", ";", " ", "d", "b", "g", "_", "a", "s", "s", "e", "r", "t", ";", " ", "#", "0", ";", " ", "d", "b", "g", "_", "a", "s", "s", "e", "r", "t", ";", " ", "e", "n", "d", ";">>,
    \* #3; global_set 1; global_get 1; local_tee 2; local_set 3; #4; global_tee 5; drop; end;
    <<"#", "3", ";", " ", "g", "l", "o", "b", "a", "l", "_", "s", "e", "t", " ", "1", ";", " ", "g", "l", "o", "b", "a", "l", "_", "g", "e", "t", " ", "1", ";", " ", "l", "o", "c", "a", "l", "_", "t", "e", "e", " ", "2", ";", " ", "l", "o", "c", "a", "l", "_", "s", "e", "t", " ", "3", ";", " ", "#", "4", ";", " ", "g", "l", "o", "b", "a", "l", "_", "t", "e", "e", " ", "5", ";", " ", "d", "r", "o", "p", ";", " ", "e", "n", "d", ";">>,
    \* :l: #1; #@l; jmp;
    <<":", "l", ":", " ", "#", "1", ";", " ", "#", "@", "l", ";", " ", "j", "m", "p", ";">>,
    \* *
    <<"*">>,
    \* nop; *
    <<"n", "o", "p", ";", " ", "*">>,
    \* #2; branch; nop; end;
    <<"#", "2", ";", " ", "b", "r", "a", "n", "c", "h", ";", " ", "n", "o", "p", ";", " ", "e", "n", "d", ";">>,
    \* #1; #2; branch_if; nop; end;
    <<"#", "1", ";", " ", "#", "2", ";", " ", "b", "r", "a", "n", "c", "h", "_", "i", "f", ";", " ", "n", "o", "p", ";", " ", "e", "n", "d", ";">>,
    \* #0; #2; branch_if; nop; end;
    <<"#", "0", ";", " ", "#", "2", ";", " ", "b", "r", "a", "n", "c", "h", "_", "i", "f", ";", " ", "n", "o", "p", ";", " ", "e", "n", "d", ";">>,
    \* #-1; branch; end;
    <<"#", "-", "1", ";", " ", "b", "r", "a", "n", "c", "h", ";", " ", "e", "n", "d", ";">>,
    \* #1; push_arg; #2; push_arg; end;
    <<"#", "1", ";", " ", "p", "u", "s", "h", "_", "a", "r", "g", ";", " ", "#", "2", ";", " ", "p", "u", "s", "h", "_", "a", "r", "g", ";", " ", "e", "n", "d", ";">>,
    \* :a::b: nop; #@b; end;
    <<":", "a", ":", ":", "b", ":", " ", "n", "o", "p", ";", " ", "#", "@", "b", ";", " ", "e", "n", "d", ";">>,
    \* nop ;\r\n  end;\n
    <<"n", "o", "p", " ", ";", "\r", "\n", " ", " ", "e", "n", "d", ";", "\n">>,
    \* #.a; :a: end;
    <<"#", ".", "a", ";", " ", ":", "a", ":", " ", "e", "n", "d", ";">>,
    \* #7; #2; add; #3; sub; #2; mul; #3; div_u; #-2; div_s; end;
    <<"#", "7", ";", " ", "#", "2", ";", " ", "a", "d", "d", ";", " ", "#", "3", ";", " ", "s", "u", "b", ";", " ", "#", "2", ";", " ", "m", "u", "l", ";", " ", "#", "3", ";", " ", "d", "i", "v", "_", "u", ";", " ", "#", "-", "2", ";", " ", "d", "i", "v", "_", "s", ";", " ", "e", "n", "d", ";">>,
    \* #1; #2; lt; #0; gt; #1; ge; #1; le; #3; shiftl; #1; shiftr; end;
    <<"#", "1", ";", " ", "#", "2", ";", " ", "l", "t", ";", " ", "#", "0", ";", " ", "g", "t", ";", " ", "#", "1", ";", " ", "g", "e", ";", " ", "#", "1", ";", " ", "l", "e", ";", " ", "#", "3", ";", " ", "s", "h", "i", "f", "t", "l", ";", " ", "#", "1", ";", " ", "s", "h", "i", "f", "t", "r", ";", " ", "e", "n", "d", ";">>,
    \* #-1; #2; mul; end;
    <<"#", "-", "1", ";", " ", "#", "2", ";", " ", "m", "u", "l", ";", " ", "e", "n", "d", ";">>,
    \* #1; #32; shiftr; end;
    <<"#", "1", ";", " ", "#", "3", "2", ";", " ", "s", "h", "i", "f", "t", "r", ";", " ", "e", "n", "d", ";">>,
    \* #1; #0; div_u; end;
    <<"#", "1", ";", " ", "#", "0", ";", " ", "d", "i", "v", "_", "u", ";", " ", "e", "n", "d", ";">>,
    \* #-2147483648; #-1; div_s; end;
    <<"#", "-", "2", "1", "4", "7", "4", "8", "3", "6", "4", "8", ";", " ", "#", "-", "1", ";", " ", "d", "i", "v", "_", "s", ";", " ", "e", "n", "d", ";">>,
    \* #65562; load_8_u 0; end;
    <<"#", "6", "5", "5", "6", "2", ";", " ", "l", "o", "a", "d", "_", "8", "_", "u", " ", "0", ";", " ", "e", "n", "d", ";">>,
    \* #65563; load_8_u 0; end;
    <<"#", "6", "5", "5", "6", "3", ";", " ", "l", "o", "a", "d", "_", "8", "_", "u", " ", "0", ";", " ", "e", "n", "d", ";">>,
    \* #65559; load_32_u 0; end;
    <<"#", "6", "5", "5", "5", "9", ";", " ", "l", "o", "a", "d", "_", "3", "2", "_", "u", " ", "0", ";", " ", "e", "n", "d", ";">>,
    \* #65560; load_32_u 0; end;
    <<"#", "6", "5", "5", "6", "0", ";", " ", "l", "o", "a", "d", "_", "3", "2", "_", "u", " ", "0", ";", " ", "e", "n", "d", ";">>,
    \* #65561; load_16_u 0; end;
    <<"#", "6", "5", "5", "6", "1", ";", " ", "l", "o", "a", "d", "_", "1", "6", "_", "u", " ", "0", ";", " ", "e", "n", "d", ";">>,
    \* #65562; load_16_u 0; end;
    <<"#", "6", "5", "5", "6", "2", ";", " ", "l", "o", "a", "d", "_", "1", "6", "_", "u", " ", "0", ";", " ", "e", "n", "d", ";">>,
    \* #65566; #258; store_16 0; end;
    <<"#", "6", "5", "5", "6", "6", ";", " ", "#", "2", "5", "8", ";", " ", "s", "t", "o", "r", "e", "_", "1", "6", " ", "0", ";", " ", "e", "n", "d", ";">>,
    \* #65567; #258; store_16 0; end;
    <<"#", "6", "5", "5", "6", "7", ";", " ", "#", "2", "5", "8", ";", " ", "s", "t", "o", "r", "e", "_", "1", "6", " ", "0", ";", " ", "e", "n", "d", ";">>,
    \* #65567; #7; store_8 0; end;
    <<"#", "6", "5", "5", "6", "7", ";", " ", "#", "7", ";", " ", "s", "t", "o", "r", "e", "_", "8", " ", "0", ";", " ", "e", "n", "d", ";">>,
    \* #65568; #7; store_8 0; end;
    <<"#", "6", "5", "5", "6", "8", ";", " ", "#", "7", ";", " ", "s", "t", "o", "r", "e", "_", "8", " ", "0", ";", " ", "e", "n", "d", ";">>,
    \* #65564; #-2; store_32 0; end;
    <<"#", "6", "5", "5", "6", "4", ";", " ", "#", "-", "2", ";", " ", "s", "t", "o", "r", "e", "_", "3", "2", " ", "0", ";", " ", "e", "n", "d", ";">>,
    \* #65565; #-2; store_32 0; end;
    <<"#", "6", "5", "5", "6", "5", ";", " ", "#", "-", "2", ";", " ", "s", "t", "o", "r", "e", "_", "3", "2", " ", "0", ";", " ", "e", "n", "d", ";">>,
    \* #65572; #1; store_8 0; #65572; jmp;
    <<"#", "6", "5", "5", "7", "2", ";", " ", "#", "1", ";", " ", "s", "t", "o", "r", "e", "_", "8", " ", "0", ";", " ", "#", "6", "5", "5", "7", "2", ";", " ", "j", "m", "p", ";">>,
    \* #65572; #4; store_8 0; #65572; jmp;
    <<"#", "6", "5", "5", "7", "2", ";", " ", "#", "4", ";", " ", "s", "t", "o", "r", "e", "_", "8", " ", "0", ";", " ", "#", "6", "5", "5", "7", "2", ";", " ", "j", "m", "p", ";">>,
    \* #65572; #9; store_8 0; #65572; jmp;
    <<"#", "6", "5", "5", "7", "2", ";", " ", "#", "9", ";", " ", "s", "t", "o", "r", "e", "_", "8", " ", "0", ";", " ", "#", "6", "5", "5", "7", "2", ";", " ", "j", "m", "p", ";">>,
    \* #-1; load_8_u 1; end;
    <<"#", "-", "1", ";", " ", "l", "o", "a", "d", "_", "8", "_", "u", " ", "1", ";", " ", "e", "n", "d", ";">>,
    \* #0; load_16_u 4; end;
    <<"#", "0", ";", " ", "l", "o", "a", "d", "_", "1", "6", "_", "u", " ", "4", ";", " ", "e", "n", "d", ";">>,
    \* #100; #100; #-2; store_32 4; load_32_u 4; end;
    <<"#", "1", "0", "0", ";", " ", "#", "1", "0", "0", ";", " ", "#", "-", "2", ";", " ", "s", "t", "o", "r", "e", "_", "3", "2", " ", "4", ";", " ", "l", "o", "a", "d", "_", "3", "2", "_", "u", " ", "4", ";", " ", "e", "n", "d", ";">>,
    \* #65558; jmp;
    <<"#", "6", "5", "5", "5", "8", ";", " ", "j", "m", "p", ";">>,
    \* #65557; jmp;
    <<"#", "6", "5", "5", "5", "7", ";", " ", "j", "m", "p", ";">>,
    \* #65558; call;
    <<"#", "6", "5", "5", "5", "8", ";", " ", "c", "a", "l", "l", ";">>,
    \* #1; #65563; jmp_if;
    <<"#", "1", ";", " ", "#", "6", "5", "5", "6", "3", ";", " ", "j", "m", "p", "_", "i", "f", ";">>,
    \* #5; push_arg; #6; push_arg; #@f; call; end; :f: local_get 0; local_get 1; return;
    <<"#", "5", ";", " ", "p", "u", "s", "h", "_", "a", "r", "g", ";", " ", "#", "6", ";", " ", "p", "u", "s", "h", "_", "a", "r", "g", ";", " ", "#", "@", "f", ";", " ", "c", "a", "l", "l", ";", " ", "e", "n", "d", ";", " ", ":", "f", ":", " ", "l", "o", "c", "a", "l", "_", "g", "e", "t", " ", "0", ";", " ", "l", "o", "c", "a", "l", "_", "g", "e", "t", " ", "1", ";", " ", "r", "e", "t", "u", "r", "n", ";">>,
    \* #7; local_set 0; #@f; call; end; :f: #9; local_set 0; #@g; call; return; :g: #3; local_set 0; return;
    <<"#", "7", ";", " ", "l", "o", "c", "a", "l", "_", "s", "e", "t", " ", "0", ";", " ", "#", "@", "f", ";", " ", "c", "a", "l", "l", ";", " ", "e", "n", "d", ";", " ", ":", "f", ":", " ", "#", "9", ";", " ", "l", "o", "c", "a", "l", "_", "s", "e", "t", " ", "0", ";", " ", "#", "@", "g", ";", " ", "c", "a", "l", "l", ";", " ", "r", "e", "t", "u", "r", "n", ";", " ", ":", "g", ":", " ", "#", "3", ";", " ", "l", "o", "c", "a", "l", "_", "s", "e", "t", " ", "0", ";", " ", "r", "e", "t", "u", "r", "n", ";">>,
    \* #0; #65564; jmp_if; end;
    <<"#", "0", ";", " ", "#", "6", "5", "5", "6", "4", ";", " ", "j", "m", "p", "_", "i", "f", ";", " ", "e", "n", "d", ";">>,
    \* #5; #0; dbg_assert; unreachable;
    <<"#", "5", ";", " ", "#", "0", ";", " ", "d", "b", "g", "_", "a", "s", "s", "e", "r", "t", ";", " ", "u", "n", "r", "e", "a", "c", "h", "a", "b", "l", "e", ";">>,
    \* #100; #100; #0x1234567; store_16 4; load_16_u 4; end;
    <<"#", "1", "0", "0", ";", " ", "#", "1", "0", "0", ";", " ", "#", "0", "x", "1", "2", "3", "4", "5", "6", "7", ";", " ", "s", "t", "o", "r", "e", "_", "1", "6", " ", "4", ";", " ", "l", "o", "a", "d", "_", "1", "6", "_", "u", " ", "4", ";", " ", "e", "n", "d", ";">>,
    \* #100; #100; #0x1234567; store_8 4; load_8_u 4; end;
    <<"#", "1", "0", "0", ";", " ", "#", "1", "0", "0", ";", " ", "#", "0", "x", "1", "2", "3", "4", "5", "6", "7", ";", " ", "s", "t", "o", "r", "e", "_", "8", " ", "4", ";", " ", "l", "o", "a", "d", "_", "8", "_", "u", " ", "4", ";", " ", "e", "n", "d", ";">>,
    \* #3; global_set 1; #4; local_set 1; global_get 1; local_get 1; end;
    <<"#", "3", ";", " ", "g", "l", "o", "b", "a", "l", "_", "s", "e", "t", " ", "1", ";", " ", "#", "4", ";", " ", "l", "o", "c", "a", "l", "_", "s", "e", "t", " ", "1", ";", " ", "g", "l", "o", "b", "a", "l", "_", "g", "e", "t", " ", "1", ";", " ", "l", "o", "c", "a", "l", "_", "g", "e", "t", " ", "1", ";", " ", "e", "n", "d", ";">>,
    \* nop
    <<"n", "o", "p">>,
    \* foo;
    <<"f", "o", "o", ";">>,
    \* local_get 255;
    <<"l", "o", "c", "a", "l", "_", "g", "e", "t", " ", "2", "5", "5", ";">>,
    \* local_get 254;
    <<"l", "o", "c", "a", "l", "_", "g", "e", "t", " ", "2", "5", "4", ";">>,
    \* #;
    <<"#", ";">>,
    \* ;
    <<";">>,
    \* #0x10; end;
    <<"#", "0", "x", "1", "0", ";", " ", "e", "n", "d", ";">>,
    \* #@nolabel;
    <<"#", "@", "n", "o", "l", "a", "b", "e", "l", ";">>,
    \* nop 1;
    <<"n", "o", "p", " ", "1", ";">>,
    \* :a: :a:
    <<":", "a", ":", " ", ":", "a", ":">>,
    \* local_get 64; end;
    <<"l", "o", "c", "a", "l", "_", "g", "e", "t", " ", "6", "4", ";", " ", "e", "n", "d", ";">>,
    \* #1; global_set 64; end;
    <<"#", "1", ";", " ", "g", "l", "o", "b", "a", "l", "_", "s", "e", "t", " ", "6", "4", ";", " ", "e", "n", "d", ";">>,
    \* global_get 64; end;
    <<"g", "l", "o", "b", "a", "l", "_", "g", "e", "t", " ", "6", "4", ";", " ", "e", "n", "d", ";">>,
    \* #1; #1; eq; end;
    <<"#", "1", ";", " ", "#", "1", ";", " ", "e", "q", ";", " ", "e", "n", "d", ";">>,
    \* #-1; #1; lt; #2; #1; le; end;
    <<"#", "-", "1", ";", " ", "#", "1", ";", " ", "l", "t", ";", " ", "#", "2", ";", " ", "#", "1", ";", " ", "l", "e", ";", " ", "e", "n", "d", ";">>,
    \* nop; global_tee 255;
    <<"n", "o", "p", ";", " ", "g", "l", "o", "b", "a", "l", "_", "t", "e", "e", " ", "2", "5", "5", ";">>,
    \* local_set 256;
    <<"l", "o", "c", "a", "l", "_", "s", "e", "t", " ", "2", "5", "6", ";">>,
    \* global_set -1;
    <<"g", "l", "o", "b", "a", "l", "_", "s", "e", "t", " ", "-", "1", ";">>,
    \* :a: local_tee @a;
    <<":", "a", ":", " ", "l", "o", "c", "a", "l", "_", "t", "e", "e", " ", "@", "a", ";">>,
    \* :a: global_get .a;
    <<":", "a", ":", " ", "g", "l", "o", "b", "a", "l", "_", "g", "e", "t", " ", ".", "a", ";">>,
    \* nop; local_set 0x10; global_get 0;
    <<"n", "o", "p", ";", " ", "l", "o", "c", "a", "l", "_", "s", "e", "t", " ", "0", "x", "1", "0", ";", " ", "g", "l", "o", "b", "a", "l", "_", "g", "e", "t", " ", "0", ";">>,
    \* :a: nop; :a: end;
    <<":", "a", ":", " ", "n", "o", "p", ";", " ", ":", "a", ":", " ", "e", "n", "d", ";">>,
    \* nop; :a: #1; :b: local_get 1; :c: end;
    <<"n", "o", "p", ";", " ", ":", "a", ":", " ", "#", "1", ";", " ", ":", "b", ":", " ", "l", "o", "c", "a", "l", "_", "g", "e", "t", " ", "1", ";", " ", ":", "c", ":", " ", "e", "n", "d", ";">>,
    \* #@b; :a: nop; :b: const @a; load_8_u @b; end;
    <<"#", "@", "b", ";", " ", ":", "a", ":", " ", "n", "o", "p", ";", " ", ":", "b", ":", " ", "c", "o", "n", "s", "t", " ", "@", "a", ";", " ", "l", "o", "a", "d", "_", "8", "_", "u", " ", "@", "b", ";", " ", "e", "n", "d", ";">>,
    \* :a: nop; store_8 @zz; #@a;
    <<":", "a", ":", " ", "n", "o", "p", ";", " ", "s", "t", "o", "r", "e", "_", "8", " ", "@", "z", "z", ";", " ", "#", "@", "a", ";">>,
    \* #.a; nop; #.a; :a: end;
    <<"#", ".", "a", ";", " ", "n", "o", "p", ";", " ", "#", ".", "a", ";", " ", ":", "a", ":", " ", "e", "n", "d", ";">>,
    \* :a: nop; #.a; drop; end;
    <<":", "a", ":", " ", "n", "o", "p", ";", " ", "#", ".", "a", ";", " ", "d", "r", "o", "p", ";", " ", "e", "n", "d", ";">>,
    \* #1 ; end;
    <<"#", "1", " ", ";", " ", "e", "n", "d", ";">>,
    \* #@a\n; :a: end;
    <<"#", "@", "a", "\n", ";", " ", ":", "a", ":", " ", "e", "n", "d", ";">>,
    \*  \r\n#1;\n\nlocal_set \n 1 ; :a: \n end ;\n 
    <<" ", "\r", "\n", "#", "1", ";", "\n", "\n", "l", "o", "c", "a", "l", "_", "s", "e", "t", " ", "\n", " ", "1", " ", ";", " ", ":", "a", ":", " ", "\n", " ", "e", "n", "d", " ", ";", "\n", " ">>,
    \* :a:  nop ;\r\n#@a;
    <<":", "a", ":", " ", " ", "n", "o", "p", " ", ";", "\r", "\n", "#", "@", "a", ";">>,
    \* nop  1;
    <<"n", "o", "p", " ", " ", "1", ";">>,
    \* local_get 1 2 ;
    <<"l", "o", "c", "a", "l", "_", "g", "e", "t", " ", "1", " ", "2", " ", ";">>,
    \* #70000; branch; end;
    <<"#", "7", "0", "0", "0", "0", ";", " ", "b", "r", "a", "n", "c", "h", ";", " ", "e", "n", "d", ";">>,
    \* branch; end;
    <<"b", "r", "a", "n", "c", "h", ";", " ", "e", "n", "d", ";">>,
    \* #1; #70000; branch_if; end;
    <<"#", "1", ";", " ", "#", "7", "0", "0", "0", "0", ";", " ", "b", "r", "a", "n", "c", "h", "_", "i", "f", ";", " ", "e", "n", "d", ";">>,
    \* #100; #100; #0x80; store_8 4; load_8_s 4; end;
    <<"#", "1", "0", "0", ";", " ", "#", "1", "0", "0", ";", " ", "#", "0", "x", "8", "0", ";", " ", "s", "t", "o", "r", "e", "_", "8", " ", "4", ";", " ", "l", "o", "a", "d", "_", "8", "_", "s", " ", "4", ";", " ", "e", "n", "d", ";">>,
    \* #0; load_16_s 0; end;
    <<"#", "0", ";", " ", "l", "o", "a", "d", "_", "1", "6", "_", "s", " ", "0", ";", " ", "e", "n", "d", ";">>,
    \* #0; load_32_s 0; end;
    <<"#", "0", ";", " ", "l", "o", "a", "d", "_", "3", "2", "_", "s", " ", "0", ";", " ", "e", "n", "d", ";">>,
    \* #0; eqz; end;
    <<"#", "0", ";", " ", "e", "q", "z", ";", " ", "e", "n", "d", ";">>,
    \* #5; neg; end;
    <<"#", "5", ";", " ", "n", "e", "g", ";", " ", "e", "n", "d", ";">>,
    \* #0x1ff; extend_8_32_u; end;
    <<"#", "0", "x", "1", "f", "f", ";", " ", "e", "x", "t", "e", "n", "d", "_", "8", "_", "3", "2", "_", "u", ";", " ", "e", "n", "d", ";">>,
    \* #0x18000; extend_16_32_u; end;
    <<"#", "0", "x", "1", "8", "0", "0", "0", ";", " ", "e", "x", "t", "e", "n", "d", "_", "1", "6", "_", "3", "2", "_", "u", ";", " ", "e", "n", "d", ";">>,
    \* #0x8000; extend_16_32_s; end;
    <<"#", "0", "x", "8", "0", "0", "0", ";", " ", "e", "x", "t", "e", "n", "d", "_", "1", "6", "_", "3", "2", "_", "s", ";", " ", "e", "n", "d", ";">>,
    \* #0x80; extend_8_32_s; end;
    <<"#", "0", "x", "8", "0", ";", " ", "e", "x", "t", "e", "n", "d", "_", "8", "_", "3", "2", "_", "s", ";", " ", "e", "n", "d", ";">>,
    \* #1; local_set 64; end;
    <<"#", "1", ";", " ", "l", "o", "c", "a", "l", "_", "s", "e", "t", " ", "6", "4", ";", " ", "e", "n", "d", ";">>,
    \* #1; local_tee 200; end;
    <<"#", "1", ";", " ", "l", "o", "c", "a", "l", "_", "t", "e", "e", " ", "2", "0", "0", ";", " ", "e", "n", "d", ";">>,
    \* #1; global_tee 64; end;
    <<"#", "1", ";", " ", "g", "l", "o", "b", "a", "l", "_", "t", "e", "e", " ", "6", "4", ";", " ", "e", "n", "d", ";">>,
    \* #-1; #7; store_8 1; end;
    <<"#", "-", "1", ";", " ", "#", "7", ";", " ", "s", "t", "o", "r", "e", "_", "8", " ", "1", ";", " ", "e", "n", "d", ";">>,
    \* #1; #-1; branch_if; end;
    <<"#", "1", ";", " ", "#", "-", "1", ";", " ", "b", "r", "a", "n", "c", "h", "_", "i", "f", ";", " ", "e", "n", "d", ";">>,
    \* #1; push_arg; #70000; call; end;
    <<"#", "1", ";", " ", "p", "u", "s", "h", "_", "a", "r", "g", ";", " ", "#", "7", "0", "0", "0", "0", ";", " ", "c", "a", "l", "l", ";", " ", "e", "n", "d", ";">>,
    \* nop;\n* end;
    <<"n", "o", "p", ";", "\n", "*", " ", "e", "n", "d", ";">>,
    \* nop;\n\nfoo;
    <<"n", "o", "p", ";", "\n", "\n", "f", "o", "o", ";">>,
    \* #@r; #65578; #33; store_8 0; #65578; jmp; :r: return;
    <<"#", "@", "r", ";", " ", "#", "6", "5", "5", "7", "8", ";", " ", "#", "3", "3", ";", " ", "s", "t", "o", "r", "e", "_", "8", " ", "0", ";", " ", "#", "6", "5", "5", "7", "8", ";", " ", "j", "m", "p", ";", " ", ":", "r", ":", " ", "r", "e", "t", "u", "r", "n", ";">>,
    \* #1; push_arg; #2; push_arg; #3; push_arg; #4; push_arg; #5; push_arg; #6; push_arg; #7; push_arg; #8; push_arg; #9; push_arg; #10; push_arg; #11; push_arg; #12; push_arg; #13; push_arg; end;
    <<"#", "1", ";", " ", "p", "u", "s", "h", "_", "a", "r", "g", ";", " ", "#", "2", ";", " ", "p", "u", "s", "h", "_", "a", "r", "g", ";", " ", "#", "3", ";", " ", "p", "u", "s", "h", "_", "a", "r", "g", ";", " ", "#", "4", ";", " ", "p", "u", "s", "h", "_", "a", "r", "g", ";", " ", "#", "5", ";", " ", "p", "u", "s", "h", "_", "a", "r", "g", ";", " ", "#", "6", ";", " ", "p", "u", "s", "h", "_", "a", "r", "g", ";", " ", "#", "7", ";", " ", "p", "u", "s", "h", "_", "a", "r", "g", ";", " ", "#", "8", ";", " ", "p", "u", "s", "h", "_", "a", "r", "g", ";", " ", "#", "9", ";", " ", "p", "u", "s", "h", "_", "a", "r", "g", ";", " ", "#", "1", "0", ";", " ", "p", "u", "s", "h", "_", "a", "r", "g", ";", " ", "#", "1", "1", ";", " ", "p", "u", "s", "h", "_", "a", "r", "g", ";", " ", "#", "1", "2", ";", " ", "p", "u", "s", "h", "_", "a", "r", "g", ";", " ", "#", "1", "3", ";", " ", "p", "u", "s", "h", "_", "a", "r", "g", ";", " ", "e", "n", "d", ";">>
}

\* statements that are put together in every way up to MaxStmts of them
StmtPool == <<
    \* #1;
    <<"#", "1", ";">>,
    \* nop;
    <<"n", "o", "p", ";">>,
    \* return;
    <<"r", "e", "t", "u", "r", "n", ";">>,
    \* end;
    <<"e", "n", "d", ";">>,
    \* :a:
    <<":", "a", ":">>,
    \* :__ENTRY__:
    <<":", "_", "_", "E", "N", "T", "R", "Y", "_", "_", ":">>,
    \* #@a;
    <<"#", "@", "a", ";">>,
    \*  \n
    <<" ", "\n">>
>>

\* the opcode catalog of the specification: byte, mnemonic, operand kind
Catalog == <<
    [byte |-> 1, name |-> <<"n", "o", "p">>, kind |-> "none"],
    [byte |-> 2, name |-> <<"u", "n", "r", "e", "a", "c", "h", "a", "b", "l", "e">>, kind |-> "none"],
    [byte |-> 3, name |-> <<"d", "r", "o", "p">>, kind |-> "none"],
    [byte |-> 4, name |-> <<"c", "o", "n", "s", "t">>, kind |-> "num"],
    [byte |-> 5, name |-> <<"j", "m", "p">>, kind |-> "none"],
    [byte |-> 6, name |-> <<"j", "m", "p", "_", "i", "f">>, kind |-> "none"],
    [byte |-> 7, name |-> <<"b", "r", "a", "n", "c", "h">>, kind |-> "none"],
    [byte |-> 8, name |-> <<"b", "r", "a", "n", "c", "h", "_", "i", "f">>, kind |-> "none"],
    [byte |-> 9, name |-> <<"l", "o", "c", "a", "l", "_", "g", "e", "t">>, kind |-> "reg"],
    [byte |-> 10, name |-> <<"l", "o", "c", "a", "l", "_", "s", "e", "t">>, kind |-> "reg"],
    [byte |-> 11, name |-> <<"l", "o", "c", "a", "l", "_", "t", "e", "e">>, kind |-> "reg"],
    [byte |-> 12, name |-> <<"g", "l", "o", "b", "a", "l", "_", "g", "e", "t">>, kind |-> "reg"],
    [byte |-> 14, name |-> <<"g", "l", "o", "b", "a", "l", "_", "s", "e", "t">>, kind |-> "reg"],
    [byte |-> 15, name |-> <<"g", "l", "o", "b", "a", "l", "_", "t", "e", "e">>, kind |-> "reg"],
    [byte |-> 16, name |-> <<"e", "q">>, kind |-> "none"],
    [byte |-> 17, name |-> <<"e", "q", "z">>, kind |-> "none"],
    [byte |-> 18, name |-> <<"a", "d", "d">>, kind |-> "none"],
    [byte |-> 19, name |-> <<"s", "u", "b">>, kind |-> "none"],
    [byte |-> 20, name |-> <<"d", "i", "v", "_", "s">>, kind |-> "none"],
    [byte |-> 21, name |-> <<"d", "i", "v", "_", "u">>, kind |-> "none"],
    [byte |-> 22, name |-> <<"m", "u", "l">>, kind |-> "none"],
    [byte |-> 23, name |-> <<"n", "e", "g">>, kind |-> "none"],
    [byte |-> 24, name |-> <<"g", "t">>, kind |-> "none"],
    [byte |-> 25, name |-> <<"l", "t">>, kind |-> "none"],
    [byte |-> 26, name |-> <<"g", "e">>, kind |-> "none"],
    [byte |-> 27, name |-> <<"l", "e">>, kind |-> "none"],
    [byte |-> 28, name |-> <<"s", "h", "i", "f", "t", "r">>, kind |-> "none"],
    [byte |-> 29, name |-> <<"s", "h", "i", "f", "t", "l">>, kind |-> "none"],
    [byte |-> 30, name |-> <<"a", "n", "d">>, kind |-> "none"],
    [byte |-> 31, name |-> <<"o", "r">>, kind |-> "none"],
    [byte |-> 32, name |-> <<"x", "o", "r">>, kind |-> "none"],
    [byte |-> 33, name |-> <<"c", "a", "l", "l">>, kind |-> "none"],
    [byte |-> 34, name |-> <<"r", "e", "t", "u", "r", "n">>, kind |-> "none"],
    [byte |-> 35, name |-> <<"s", "t", "o", "r", "e", "_", "8">>, kind |-> "num"],
    [byte |-> 36, name |-> <<"s", "t", "o", "r", "e", "_", "1", "6">>, kind |-> "num"],
    [byte |-> 37, name |-> <<"s", "t", "o", "r", "e", "_", "3", "2">>, kind |-> "num"],
    [byte |-> 38, name |-> <<"l", "o", "a", "d", "_", "8", "_", "u">>, kind |-> "num"],
    [byte |-> 39, name |-> <<"l", "o", "a", "d", "_", "8", "_", "s">>, kind |-> "num"],
    [byte |-> 40, name |-> <<"l", "o", "a", "d", "_", "1", "6", "_", "s">>, kind |-> "num"],
    [byte |-> 41, name |-> <<"l", "o", "a", "d", "_", "1", "6", "_", "u">>, kind |-> "num"],
    [byte |-> 42, name |-> <<"l", "o", "a", "d", "_", "3", "2", "_", "s">>, kind |-> "num"],
    [byte |-> 43, name |-> <<"l", "o", "a", "d", "_", "3", "2", "_", "u">>, kind |-> "num"],
    [byte |-> 44, name |-> <<"e", "x", "t", "e", "n", "d", "_", "8", "_", "3", "2", "_", "s">>, kind |-> "none"],
    [byte |-> 45, name |-> <<"e", "x", "t", "e", "n", "d", "_", "1", "6", "_", "3", "2", "_", "s">>, kind |-> "none"],
    [byte |-> 46, name |-> <<"e", "x", "t", "e", "n", "d", "_", "8", "_", "3", "2", "_", "u">>, kind |-> "none"],
    [byte |-> 47, name |-> <<"e", "x", "t", "e", "n", "d", "_", "1", "6", "_", "3", "2", "_", "u">>, kind |-> "none"],
    [byte |-> 48, name |-> <<"e", "n", "d">>, kind |-> "none"],
    [byte |-> 49, name |-> <<"p", "u", "s", "h", "_", "a", "r", "g">>, kind |-> "none"],
    [byte |-> 50, name |-> <<"d", "b", "g", "_", "a", "s", "s", "e", "r", "t">>, kind |-> "none"],
    [byte |-> 51, name |-> <<"s", "y", "s", "c", "a", "l", "l">>, kind |-> "none"]
>>

\* modules handed to reset_all in place of the one the interpreter was built
\* from: without the magic, and shorter and longer than the module held
ResetModules == {
    \* three bytes
    <<109, 97, 108>>,
    \* a wrong magic
    <<109, 97, 108, 105, 1, 0, 0, 0, 1, 0, 0, 0, 12, 0, 0, 0, 48>>,
    \* the magic alone
    <<109, 97, 108, 117>>,
    \* end; and 120 times nop
    <<109, 97, 108, 117, 121, 0, 0, 0, 121, 0, 0, 0, 12, 0, 0, 0, 48, 1, 1, 1, 1, 1, 1, 1, 1, 1, 1, 1, 1, 1, 1, 1, 1, 1, 1, 1, 1, 1, 1, 1, 1, 1, 1, 1, 1, 1, 1, 1, 1, 1, 1, 1, 1, 1, 1, 1, 1, 1, 1, 1, 1, 1, 1, 1, 1, 1, 1, 1, 1, 1, 1, 1, 1, 1, 1, 1, 1, 1, 1, 1, 1, 1, 1, 1, 1, 1, 1, 1, 1, 1, 1, 1, 1, 1, 1, 1, 1, 1, 1, 1, 1, 1, 1, 1, 1, 1, 1, 1, 1, 1, 1, 1, 1, 1, 1, 1, 1, 1, 1, 1, 1, 1, 1, 1, 1, 1, 1, 1, 1, 1, 1, 1, 1, 1, 1, 1, 1>>
}

\* modules that do not come from the assembler
RawModules == {
    \* const 0; syscall; end
    <<109, 97, 108, 117, 7, 0, 0, 0, 3, 0, 0, 0, 12, 0, 0, 0, 4, 0, 0, 0, 0, 51, 48>>,
    \* const 1; push_arg; const 2; push_arg; const 7; syscall; nop; end
    <<109, 97, 108, 117, 20, 0, 0, 0, 8, 0, 0, 0, 12, 0, 0, 0, 4, 1, 0, 0, 0, 49, 4, 2, 0, 0, 0, 49, 4, 7, 0, 0, 0, 51, 1, 48>>,
    \* const 6; const 3; and; const 1; or; const 7; xor; end
    <<109, 97, 108, 117, 24, 0, 0, 0, 8, 0, 0, 0, 12, 0, 0, 0, 4, 6, 0, 0, 0, 4, 3, 0, 0, 0, 30, 4, 1, 0, 0, 0, 31, 4, 7, 0, 0, 0, 32, 48>>,
    \* syscall on an empty stack
    <<109, 97, 108, 117, 1, 0, 0, 0, 1, 0, 0, 0, 12, 0, 0, 0, 51>>,
    \* three bytes
    <<109, 97, 108>>,
    \* a wrong magic
    <<109, 97, 108, 105, 1, 0, 0, 0, 1, 0, 0, 0, 12, 0, 0, 0, 48>>,
    \* an entry address past the memory
    <<109, 97, 108, 117, 1, 0, 0, 0, 1, 0, 0, 0, 112, 17, 1, 0, 48>>,
    \* the magic alone
    <<109, 97, 108, 117>>,
    \* const 0x80 and opcode 0x2c (extend_8_32_s)
    <<109, 97, 108, 117, 7, 0, 0, 0, 3, 0, 0, 0, 12, 0, 0, 0, 4, 128, 0, 0, 0, 44, 48>>,
    \* return at the entry 0x22, the byte to which the bottom frame returns
    <<109, 97, 108, 117, 23, 0, 0, 0, 23, 0, 0, 0, 34, 0, 0, 0, 1, 1, 1, 1, 1, 1, 1, 1, 1, 1, 1, 1, 1, 1, 1, 1, 1, 1, 1, 1, 1, 1, 34>>,
    \* nop and a const cut off after two operand bytes
    <<109, 97, 108, 117, 4, 0, 0, 0, 2, 0, 0, 0, 12, 0, 0, 0, 1, 4, 1, 2>>,
    \* bytes 0x00, 0x34 and 0xff and a local_get without its operand
    <<109, 97, 108, 117, 4, 0, 0, 0, 4, 0, 0, 0, 12, 0, 0, 0, 0, 52, 255, 9>>,
    \* opcodes 0x00, 0x0d and 0x34
    <<109, 97, 108, 117, 4, 0, 0, 0, 3, 0, 0, 0, 12, 0, 0, 0, 13, 0, 52, 0>>,
    \* every byte from 0x00 to 0x35 and 0xff, each with the operand of the catalog, and a cut-off const
    <<109, 97, 108, 117, 104, 0, 0, 0, 55, 0, 0, 0, 12, 0, 0, 0, 0, 1, 2, 3, 4, 1, 2, 3, 4, 5, 6, 7, 8, 9, 7, 10, 7, 11, 7, 12, 7, 13, 14, 7, 15, 7, 16, 17, 18, 19, 20, 21, 22, 23, 24, 25, 26, 27, 28, 29, 30, 31, 32, 33, 34, 35, 1, 2, 3, 4, 36, 1, 2, 3, 4, 37, 1, 2, 3, 4, 38, 1, 2, 3, 4, 39, 1, 2, 3, 4, 40, 1, 2, 3, 4, 41, 1, 2, 3, 4, 42, 1, 2, 3, 4, 43, 1, 2, 3, 4, 44, 45, 46, 47, 48, 49, 50, 51, 52, 53, 255, 4, 1, 2>>
}


\* the bounds of the exploration
MaxStmts == 2

MaxSteps == 26

MaxResets == 1

RECURSIVE Flatten(_)
Flatten(ss) == IF ss = <<>> THEN <<>> ELSE Head(ss) \o Flatten(StrFrom(ss, 1))

\* every text made of at most MaxStmts statements of the pool
Combos ==
    UNION {{Flatten([i \in 1..n |-> StmtPool[f[i]]]) : f \in [1..n -> DOMAIN StmtPool]} :
           n \in 0..MaxStmts}

\* a well-formed statement for an entry of the catalog
MnemonicStatement(m) == m.name \o (IF m.kind = "none" THEN <<";">> ELSE <<" ", "1", ";">>)

MnemonicSources == {MnemonicStatement(Catalog[i]) : i \in DOMAIN Catalog}

Sources == Scenarios \cup MnemonicSources \cup Combos

\* ------------------------------------------------------------------------
\* The program as a state machine: a source text is assembled statement by
\* statement (Parser::parse), or a module arrives as raw bytes; the module is
\* decoded, loaded, and then stepped, run and reset.
\* ------------------------------------------------------------------------

VARIABLES
    stage,            \* where the pipeline is: "parse", "asm_error", "asm_panic",
                      \* "module", "decoded", "idle", "run", "load_error", "panicked",
                      \* "reloaded"
    src,              \* Some(source text), or None for a module given as bytes
    rest,             \* parse_elems: what is left of the source
    parser,           \* the Parser
    elems,            \* parse_elems: the elements so far
    error,            \* the AssembleError of a failed parse
    bytecode,         \* ParseResult.code, or the raw module
    labels,           \* ParseResult.labels
    decoded,          \* what the decoder yields for the code section
    interp,           \* the Interpreter
    overflow_checks,  \* whether the build panics on integer overflow
    last,             \* the last call made on the interpreter: the module it was
                      \* given, the interpreter before it, its result, the memory
                      \* accesses it attempted
    steps,            \* exec_next_op calls since the last load or reset
    resets,           \* reset_all calls so far
    calls             \* the call instructions executed that have not returned
                      \* yet, and the one the step just taken returned from

vars == <<stage, src, rest, parser, elems, error, bytecode, labels, decoded, interp,
          overflow_checks, last, steps, resets, calls>>

asm_vars == <<src, rest, parser, elems, error, bytecode, labels>>

NoCall == [call |-> "none", via |-> "none", returned |-> TRUE, op |-> 0, module |-> <<>>,
           before |-> Interpreter_default, res |-> ResOk, log |-> <<>>, host |-> <<>>]

\* no call instruction has been executed yet
NoCalls == [open |-> <<>>, closed |-> <<>>]

Init ==
    /\ \/ /\ src \in {Some(s) : s \in Sources}
          /\ stage = "parse"
          /\ rest = src
          /\ bytecode = <<>>
       \/ /\ src = None
          /\ stage = "module"
          /\ rest = None
          /\ bytecode \in RawModules
    /\ parser = Parser_new
    /\ elems = <<>>
    /\ error = NoInfo
    /\ labels = <<>>
    /\ decoded = <<>>
    /\ interp = Interpreter_default
    /\ overflow_checks \in BOOLEAN
    /\ last = NoCall
    /\ steps = 0
    /\ resets = 0
    /\ calls = NoCalls

\* parse_elems is in its loop with r = Some(non-empty text)
Parsing == stage = "parse" /\ rest.some /\ rest.s # <<>>

\* the ? of parse_elems / parse: the error leaves Parser::parse
Fail(r) ==
    /\ stage' = IF r.panic THEN "asm_panic" ELSE "asm_error"
    /\ error' = r.err
    /\ UNCHANGED <<src, rest, parser, elems, bytecode, labels>>

\* parse_elems, arm '\n' | '\r' | ' '
SkipWhitespace ==
    /\ Parsing
    /\ Head(rest.s) \in {"\n", "\r", " "}
    /\ \E r \in {skip_whitespace(rest.s)} :
         /\ rest' = r.rest
         /\ parser' = [parser EXCEPT !.line = @ + r.lines]
    /\ UNCHANGED <<stage, src, elems, error, bytecode, labels, decoded, interp,
                   overflow_checks, last, steps, resets, calls>>

\* parse_elems, arm '#'
ParseConstShorthand ==
    /\ Parsing
    /\ Head(rest.s) = "#"
    /\ \E statement \in {slice_until(parser, StrFrom(rest.s, 1), ";")} :
         IF ~statement.ok THEN Fail(statement)
         ELSE \E arg \in {parse_arg(parser, statement.v.word)} :
                IF ~arg.ok THEN Fail(arg)
                ELSE /\ parser' = [parser EXCEPT !.op_size_bytes = @ + 5, !.op_count = @ + 1]
                     /\ elems' = Append(elems, ElemConst(arg.v))
                     /\ rest' = statement.v.rest
                     /\ UNCHANGED <<stage, src, error, bytecode, labels>>
    /\ UNCHANGED <<decoded, interp, overflow_checks, last, steps, resets, calls>>

\* parse_elems, arm '*': nothing is consumed and the loop goes round again
ParseStar ==
    /\ Parsing
    /\ Head(rest.s) = "*"
    /\ UNCHANGED vars

\* parse_elems, arm ':'
ParseLabelDef ==
    /\ Parsing
    /\ Head(rest.s) = ":"
    /\ \E l \in {parse_label(parser, StrFrom(rest.s, 1))} :
         IF ~l.ok THEN Fail(l)
         ELSE \E id \in {try_push_label(parser, l.v.label.name, l.v.label.position)} :
                IF ~id.ok THEN Fail(id)
                ELSE /\ parser' = id.v.parser
                     /\ elems' = Append(elems, ElemLabel(id.v.id))
                     /\ rest' = l.v.rest
                     /\ UNCHANGED <<stage, src, error, bytecode, labels>>
    /\ UNCHANGED <<decoded, interp, overflow_checks, last, steps, resets, calls>>

\* parse_elems, arm Some(_)
ParseOpStmt ==
    /\ Parsing
    /\ Head(rest.s) \notin {"\n", "\r", " ", "#", "*", ":"}
    /\ \E o \in {parse_op(parser, rest.s)} :
         IF ~o.ok THEN Fail(o)
         ELSE /\ parser' = [parser EXCEPT !.op_size_bytes = @ + Op_size_bytes(o.v.op),
                                          !.op_count = @ + 1]
              /\ elems' = Append(elems, ElemOp(o.v.op))
              /\ rest' = o.v.rest
              /\ UNCHANGED <<stage, src, error, bytecode, labels>>
    /\ UNCHANGED <<decoded, interp, overflow_checks, last, steps, resets, calls>>

\* labels.sort_by(position) of the pairs that HashMap::iter hands out in an
\* order of its own: any listing of all labels with ascending positions
SortedLabels(map) ==
    LET n == Cardinality(DOMAIN map)
    IN  {l \in [1..n -> DOMAIN map] :
            /\ \A i, j \in 1..n : i # j => l[i] # l[j]
            /\ \A i, j \in 1..n : i < j => map[l[i]] <= map[l[j]]}

\* Parser::parse once parse_elems has left its loop
ParseFinish ==
    /\ stage = "parse"
    /\ ~rest.some \/ rest.s = <<>>
    /\ \E ops \in {parse_ops(parser, elems)} :
         IF ~ops.ok THEN Fail(ops)
         ELSE /\ stage' = "module"
              /\ bytecode' = as_bytecode(parser, ops.v)
              /\ \E l \in SortedLabels(parser.labels) :
                    labels' = [i \in DOMAIN l |-> <<l[i], parser.labels[l[i]]>>]
              /\ UNCHANGED <<src, rest, parser, elems, error>>
    /\ UNCHANGED <<decoded, interp, overflow_checks, last, steps, resets, calls>>

\* the decoder run over the code section of the module
Decode ==
    /\ stage = "module"
    /\ stage' = "decoded"
    /\ decoded' = try_parse_ops_from_bytecode(code_section(bytecode))
    /\ UNCHANGED <<asm_vars, interp, overflow_checks, last, steps, resets, calls>>

\* the record of a call that is not exec_next_op
Called(name, before, out) ==
    [call |-> name, via |-> "api", returned |-> TRUE, op |-> 0, module |-> <<>>,
     before |-> before, res |-> out.res, log |-> out.log, host |-> out.host]

\* Interpreter::from_bytecode(&module)
FromBytecode ==
    /\ stage = "decoded"
    /\ \E out \in {from_bytecode(bytecode)} :
         /\ interp' = out.I
         /\ stage' = CASE out.res.kind = "Ok" -> "idle"
                       [] out.res.kind = "Err" -> "load_error"
                       [] OTHER -> "panicked"
         /\ last' = [Called("from_bytecode", interp, out) EXCEPT !.module = bytecode]
    /\ calls' = NoCalls
    /\ UNCHANGED <<asm_vars, decoded, overflow_checks, steps, resets>>

\* the record of an exec_next_op call: op is the byte at pc (0 past the end)
Stepped(via, before, out) ==
    [call |-> "exec_next_op", via |-> via, returned |-> TRUE,
     op |-> MemByte(before.memory, Val(before.pc)), module |-> <<>>,
     before |-> before, res |-> out.res, log |-> out.log, host |-> out.host]

\* the call instructions that have not returned yet, each with its address
\* and the return stack it found, after an exec_next_op call: the Call arm
\* opens one, the Return arm closes the innermost
CallsAfter(c, before, out) ==
    CASE out.res.kind = "Ok" /\ MemByte(before.memory, Val(before.pc)) = opcode.Call ->
           [open   |-> Append(c.open, [p |-> before.pc, return_stack |-> before.return_stack]),
            closed |-> <<>>]
      [] out.res.kind = "Ok" /\ MemByte(before.memory, Val(before.pc)) = opcode.Return
                             /\ c.open # <<>> ->
           [open   |-> SubSeq(c.open, 1, Len(c.open) - 1),
            closed |-> <<c.open[Len(c.open)]>>]
      [] OTHER -> [c EXCEPT !.closed = <<>>]

\* what the syscall handlers of the repository return
HostReturns == {U(0), U(1)}

\* one exec_next_op call from outside run(): the debugger's single step
Step ==
    /\ stage = "idle"
    /\ steps < MaxSteps
    /\ \E ret \in HostReturns :
         \E out \in {exec_next_op(interp, ret, overflow_checks)} :
           /\ interp' = out.I
           /\ stage' = IF out.res.kind = "Panic" THEN "panicked" ELSE "idle"
           /\ last' = Stepped("step", interp, out)
           /\ calls' = CallsAfter(calls, interp, out)
    /\ steps' = steps + 1
    /\ UNCHANGED <<asm_vars, decoded, overflow_checks, resets>>

\* Interpreter::run, entry: self.running = true
RunStart ==
    /\ stage = "idle"
    /\ stage' = "run"
    /\ interp' = [interp EXCEPT !.running = TRUE]
    /\ last' = [Called("run", interp, Out(interp, ResOk, <<>>)) EXCEPT !.returned = FALSE]
    /\ UNCHANGED <<asm_vars, decoded, overflow_checks, steps, resets, calls>>

\* Interpreter::run, one turn of the loop with running = true
RunStep ==
    /\ stage = "run"
    /\ interp.running
    /\ steps < MaxSteps
    /\ \E ret \in HostReturns :
         \E out \in {exec_next_op(interp, ret, overflow_checks)} :
           /\ interp' = out.I
           /\ stage' = CASE out.res.kind = "Ok" -> "run"
                         [] out.res.kind = "Err" -> "idle"
                         [] OTHER -> "panicked"
           /\ last' = Stepped("run", interp, out)
           /\ calls' = CallsAfter(calls, interp, out)
    /\ steps' = steps + 1
    /\ UNCHANGED <<asm_vars, decoded, overflow_checks, resets>>

\* Interpreter::run, the loop breaks: Ok(&self.value_stack)
RunReturn ==
    /\ stage = "run"
    /\ ~interp.running
    /\ stage' = "idle"
    /\ last' = Called("run", interp, Out(interp, ResOk, <<>>))
    /\ UNCHANGED <<asm_vars, decoded, interp, overflow_checks, steps, resets, calls>>

\* Interpreter::reset_all(&module) with the module the interpreter was
\* built from, or with another one; what follows a reset with another
\* module is not explored
ResetAll ==
    /\ stage = "idle"
    /\ resets < MaxResets
    /\ \E B \in {bytecode} \cup ResetModules :
         \E out \in {reset_all(interp, B)} :
           /\ interp' = out.I
           /\ stage' = CASE out.res.kind = "Panic" -> "panicked"
                         [] B = bytecode -> "idle"
                         [] OTHER -> "reloaded"
           /\ last' = [Called("reset_all", interp, out) EXCEPT !.module = B]
    /\ calls' = NoCalls
    /\ steps' = 0
    /\ resets' = resets + 1
    /\ UNCHANGED <<asm_vars, decoded, overflow_checks>>

Next ==
    \/ SkipWhitespace
    \/ ParseConstShorthand
    \/ ParseStar
    \/ ParseLabelDef
    \/ ParseOpStmt
    \/ ParseFinish
    \/ Decode
    \/ FromBytecode
    \/ Step
    \/ RunStart
    \/ RunStep
    \/ RunReturn
    \/ ResetAll

Spec == Init /\ [][Next]_vars

\* ------------------------------------------------------------------------
\* Properties of the interpreter
\* ------------------------------------------------------------------------

\* exec_next_op has just returned Ok
StepOk == last.call = "exec_next_op" /\ last.res.kind = "Ok"

\* the step just taken executed the opcode op and returned Ok
Executed(op) == StepOk /\ last.op = op

\* C1: a return executed by run() while the return stack holds only the
\* bottom frame sets running to false (so that run() returns Ok next).
C1_BottomReturnStopsRun ==
    (Executed(opcode.Return) /\ last.via = "run" /\ Len(last.before.return_stack) = 1)
        => ~interp.running

\* C2: from_bytecode and reset_all leave a frame on the return stack, and a
\* step of run() taken with a frame on the stack that leaves running true
\* (so that another instruction is about to be executed) leaves a frame too.
C2_FrameWhileRunning ==
    /\ (last.call \in {"from_bytecode", "reset_all"} /\ last.res.kind = "Ok")
          => interp.return_stack # <<>>
    /\ (last.call = "exec_next_op" /\ last.before.running
            /\ last.before.return_stack # <<>> /\ interp.running)
          => interp.return_stack # <<>>

\* the bytes an access asks for all lie inside the memory
InsideMemory(acc) == Small(acc.addr) /\ Val(acc.addr) + acc.width <= interp.memory.len

\* C3: an access touches memory only at addresses 0 .. memory.len() - 1; an
\* access any byte of which lies outside fails with AddrOutOfBounds(addr),
\* nothing is accessed after it, and the memory is left as it was.
C3_AccessesInsideMemory ==
    /\ \A a \in DOMAIN interp.memory.bytes : a \in 0..(interp.memory.len - 1)
    /\ \A i \in DOMAIN last.log :
          /\ last.log[i].hit <=> InsideMemory(last.log[i])
          /\ ~last.log[i].hit =>
                /\ i = Len(last.log)
                /\ last.res = ResErr("AddrOutOfBounds", last.log[i].addr)
                /\ interp.memory = last.before.memory

\* a four-byte load that straddles the end of the memory has been refused
C3_StraddlingLoadRefused ==
    /\ last.call = "exec_next_op"
    /\ last.op = opcode.Load32u
    /\ \E i \in DOMAIN last.log :
          /\ ~last.log[i].hit
          /\ last.log[i].width = 4
          /\ Small(last.log[i].addr)
          /\ Val(last.log[i].addr) < interp.memory.len
          /\ Val(last.log[i].addr) + 4 > interp.memory.len

\* the opcodes that transfer control
ControlTransfers ==
    {opcode.Jmp, opcode.JmpIf, opcode.Branch, opcode.BranchIf, opcode.Call, opcode.Return}

\* the encoded size of a catalog opcode: 1, plus 1 for a register operand,
\* plus 4 for a numeric operand
CatalogSize(op) ==
    LET m == CHOOSE i \in DOMAIN Catalog : Catalog[i].byte = op
    IN  CASE Catalog[m].kind = "reg" -> 2
          [] Catalog[m].kind = "num" -> 5
          [] OTHER -> 1

\* the step just taken halted the program: end, or a dbg_assert that popped 0
Halted ==
    \/ last.op = opcode.End
    \/ /\ last.op = opcode.DbgAssert
       /\ last.before.value_stack # <<>>
       /\ last.before.value_stack[Len(last.before.value_stack)] = U(0)

\* C4: a step that returns Ok, is not a control transfer and does not halt
\* the program leaves pc at the old pc plus the encoded size of the opcode.
C4_PcAdvancesBySize ==
    (StepOk /\ last.op \notin ControlTransfers /\ ~Halted
            /\ \E i \in DOMAIN Catalog : Catalog[i].byte = last.op)
        => interp.pc = WrappingAdd(last.before.pc, U(CatalogSize(last.op)))

\* C5: reset_all(B) on an interpreter built from B and driven by any steps
\* and runs yields the state of a fresh from_bytecode(B), field by field.
C5_ResetEqualsFresh ==
    (last.call = "reset_all" /\ last.module = bytecode /\ last.res.kind = "Ok")
        => /\ from_bytecode(bytecode).res.kind = "Ok"
           /\ interp = from_bytecode(bytecode).I

\* a reset of an interpreter whose stacks, memory, globals, args, pc and
\* assertion flag had all moved away from their fresh values
C5_ResetOfUsedInterpreter ==
    /\ last.call = "reset_all" /\ last.module = bytecode
    /\ last.res.kind = "Ok"
    /\ last.before.value_stack # <<>>
    /\ last.before.args # <<>>
    /\ last.before.assertion_failed
    /\ last.before.memory # interp.memory
    /\ last.before.globals # interp.globals
    /\ last.before.return_stack # interp.return_stack
    /\ last.before.pc # interp.pc

\* ------------------------------------------------------------------------
\* Properties of the assembler and of the decoder
\* ------------------------------------------------------------------------

\* the source has been assembled into the module held in bytecode
Assembled == src.some /\ stage \notin {"parse", "asm_error", "asm_panic"}

\* the four header bytes at a byte offset of the module, as a number
HeaderField(offset) == FromLeBytes(SubSeq(bytecode, offset + 1, offset + 4))

\* the statements that emit an op: every '#ARG;' and every mnemonic statement
EmittedCount == Cardinality({i \in DOMAIN elems : elems[i].kind # "Label"})

\* the sum of size_bytes over a sequence of emitted ops
RECURSIVE SumSizes(_)
SumSizes(ops) ==
    IF ops = <<>> THEN 0 ELSE RawOp_size_bytes(Head(ops)) + SumSizes(Tail(ops))

\* the entry address: CODE_START plus the position of __ENTRY__, if defined
EntryAddr ==
    U(CODE_START + (IF ENTRY_LABEL_NAME \in DOMAIN parser.labels
                    THEN parser.labels[ENTRY_LABEL_NAME] ELSE 0))

\* C6: an assembled module starts with 'malu', is 16 bytes plus the sizes
\* of the emitted ops long, holds that sum in code_size_bytes and the number
\* of emitted ops ('#ARG;' one op of 5 bytes, labels none) in
\* instruction_count.
C6_HeaderCounts ==
    Assembled =>
        \A ops \in {parse_ops(parser, elems).v} :
            /\ SubSeq(bytecode, 1, 4) = <<109, 97, 108, 117>>
            /\ Len(bytecode) = total_header_size + SumSizes(ops)
            /\ HeaderField(4) = U(SumSizes(ops))
            /\ HeaderField(8) = U(Len(ops))
            /\ Len(ops) = EmittedCount
            /\ \A i \in DOMAIN elems :
                  elems[i].kind = "Const" => Op_size_bytes(elems[i].op) = 5

\* a module assembled from a label, a '#ARG;' and an op with a register
C6_MixedSourceAssembled ==
    /\ Assembled
    /\ stage = "module"
    /\ \E i, j, k \in DOMAIN elems :
          /\ elems[i].kind = "Label"
          /\ elems[j].kind = "Const"
          /\ elems[k].kind = "Op" /\ Op_size_bytes(elems[k].op) = 2

\* C7 (as the assembler writes it): magic at offset 0x00, code_size_bytes at
\* 0x04, instruction_count at 0x08, entry_pc_addr at 0x0C, each
\* little-endian, and the code section from 0x10.
C7_HeaderLayout ==
    Assembled =>
        /\ Len(bytecode) >= total_header_size
        /\ SubSeq(bytecode, 1, 4) = BYTECODE_HEADER
        /\ HeaderField(4) = U(Len(bytecode) - total_header_size)
        /\ HeaderField(8) = U(EmittedCount)
        /\ HeaderField(12) = EntryAddr
        /\ code_section(bytecode) = EncodeAll(parse_ops(parser, elems).v)

\* C7 (as stated): magic at offset 0x00, code_size_bytes at 0x04,
\* entry_pc_addr at 0x08, instruction_count at 0x0C, code from 0x10.
C7_HeaderLayoutAsStated ==
    Assembled =>
        /\ Len(bytecode) >= total_header_size
        /\ SubSeq(bytecode, 1, 4) = BYTECODE_HEADER
        /\ HeaderField(4) = U(Len(bytecode) - total_header_size)
        /\ HeaderField(8) = EntryAddr
        /\ HeaderField(12) = U(EmittedCount)
        /\ code_section(bytecode) = EncodeAll(parse_ops(parser, elems).v)

\* a module whose entry label lies past the first op
C7_ModuleWithEntryLabel ==
    /\ Assembled
    /\ ENTRY_LABEL_NAME \in DOMAIN parser.labels
    /\ parser.labels[ENTRY_LABEL_NAME] > 0
    /\ EmittedCount >= 2

\* C8: after from_bytecode or reset_all of an assembled module, pc is
\* CODE_START + position(__ENTRY__) if the source defines __ENTRY__, and
\* CODE_START otherwise.
C8_PcIsEntry ==
    (src.some /\ last.call \in {"from_bytecode", "reset_all"} /\ last.module = bytecode
              /\ last.res.kind = "Ok")
        => interp.pc = EntryAddr

\* a reset that moved pc back to an entry label lying past the first op
C8_ResetToEntryLabel ==
    /\ src.some
    /\ last.call = "reset_all" /\ last.module = bytecode
    /\ last.res.kind = "Ok"
    /\ ENTRY_LABEL_NAME \in DOMAIN parser.labels
    /\ parser.labels[ENTRY_LABEL_NAME] > 0
    /\ last.before.pc # interp.pc

\* C9: the decoder run over the code section of an assembled module yields
\* instruction_count items, each of variant Op.
C9_DecoderYieldsOps ==
    (Assembled /\ stage # "module")
        => /\ Len(decoded) = EmittedCount
           /\ \A i \in DOMAIN decoded : decoded[i].variant = "Op"

\* the operand bytes of the statement MnemonicStatement writes for a kind
CatalogOperand(kind) ==
    CASE kind = "reg" -> <<1>>
      [] kind = "num" -> <<1, 0, 0, 0>>
      [] OTHER -> <<>>

\* C10: a well-formed statement with a mnemonic of the catalog is accepted
\* and assembles to the catalog's opcode byte followed by an operand of the
\* catalog's kind.
C10_CatalogMnemonicsAssemble ==
    \A i \in DOMAIN Catalog :
        (src = Some(MnemonicStatement(Catalog[i])) /\ stage # "parse")
            => /\ stage \notin {"asm_error", "asm_panic"}
               /\ code_section(bytecode) =
                     <<Catalog[i].byte>> \o CatalogOperand(Catalog[i].kind)

\* ------------------------------------------------------------------------
\* Properties of single instructions
\* ------------------------------------------------------------------------

\* the top of a stack, and the stack without its k topmost entries
TopOf(stack) == stack[Len(stack)]

Front(stack, k) == SubSeq(stack, 1, Len(stack) - k)

\* C11: call pops addr, pushes one frame whose return_addr is the address
\* of the call plus 1 and whose locals are the pushed arguments in push_arg
\* order followed by zeros, empties args and sets pc = addr.
C11_CallPushesFrame ==
    Executed(opcode.Call) =>
        /\ last.before.value_stack # <<>>
        /\ interp.value_stack = Front(last.before.value_stack, 1)
        /\ interp.pc = TopOf(last.before.value_stack)
        /\ interp.args = <<>>
        /\ Front(interp.return_stack, 1) = last.before.return_stack
        /\ TopOf(interp.return_stack).return_addr = WrappingAdd(last.before.pc, U(1))
        /\ DOMAIN TopOf(interp.return_stack).locals = 0..(MAX_LOCALS - 1)
        /\ \A i \in 0..(MAX_LOCALS - 1) :
              TopOf(interp.return_stack).locals[i] =
                 IF i < Len(last.before.args) THEN last.before.args[i + 1] ELSE U(0)

\* a call made with two different arguments pushed
C11_CallWithTwoArgs ==
    /\ Executed(opcode.Call)
    /\ Len(last.before.args) = 2
    /\ last.before.args[1] # last.before.args[2]
    /\ last.before.return_stack # <<>>

\* C12: after a call at address p and the callee's matching return, pc is
\* p + 1 and the return stack (its depth, and every local of the caller and
\* of the frames below it) is what it was before the call.
C12_FramesIsolated ==
    (Executed(opcode.Return) /\ calls.closed # <<>>) =>
        /\ interp.pc = WrappingAdd(calls.closed[1].p, U(1))
        /\ Len(interp.return_stack) = Len(calls.closed[1].return_stack)
        /\ interp.return_stack = calls.closed[1].return_stack

\* the return of a callee that had set its own local 0 (to 9, the caller's
\* being 7) and had made a nested call of its own
C12_CalleeWithNestedCallReturned ==
    /\ Executed(opcode.Return)
    /\ calls.closed # <<>>
    /\ Len(calls.closed[1].return_stack) = 1
    /\ calls.closed[1].return_stack[1].locals[0] = U(7)
    /\ Len(last.before.return_stack) = 2
    /\ TopOf(last.before.return_stack).locals[0] = U(9)

\* the value below the top of a stack of two or more values
Second(stack) == stack[Len(stack) - 1]

\* exec_next_op has just returned the error err for the opcode op
Refused(op, err) ==
    /\ last.call = "exec_next_op" /\ last.op = op
    /\ last.res.kind = "Err" /\ last.res.err = err

\* C13: jmp_if pops the target first and the condition second. A step that
\* returns Ok has removed exactly these two values and leaves pc at the
\* target (which is below memory.len) when the condition is not 0 and at
\* pc + 1 when it is 0; the step fails with InvalidJumpAddr of the target
\* exactly when the condition is not 0 and the target is not below
\* memory.len, and then too exactly the two values are gone.
C13_JmpIfPopsTargetThenCond ==
    /\ Executed(opcode.JmpIf) =>
          /\ Len(last.before.value_stack) >= 2
          /\ interp.value_stack = Front(last.before.value_stack, 2)
          /\ IF Second(last.before.value_stack) # U(0)
             THEN /\ interp.pc = TopOf(last.before.value_stack)
                  /\ LtU(interp.pc, U(interp.memory.len))
             ELSE interp.pc = WrappingAdd(last.before.pc, U(1))
    /\ Refused(opcode.JmpIf, "InvalidJumpAddr") =>
          /\ Len(last.before.value_stack) >= 2
          /\ interp.value_stack = Front(last.before.value_stack, 2)
          /\ Second(last.before.value_stack) # U(0)
          /\ last.res.arg = TopOf(last.before.value_stack)
          /\ ~LtU(last.res.arg, U(interp.memory.len))
          /\ interp.pc = last.before.pc
    /\ (last.call = "exec_next_op" /\ last.op = opcode.JmpIf
            /\ Len(last.before.value_stack) >= 2) =>
          \/ last.res.kind = "Ok"
          \/ Refused(opcode.JmpIf, "InvalidJumpAddr")

\* a jmp_if that was taken: the condition, below the target, is not 0
C13_JumpTaken ==
    /\ Executed(opcode.JmpIf)
    /\ Second(last.before.value_stack) # U(0)
    /\ TopOf(last.before.value_stack) # Second(last.before.value_stack)
    /\ interp.pc = TopOf(last.before.value_stack)
    /\ interp.pc # WrappingAdd(last.before.pc, U(1))

\* the step just taken was a dbg_assert that found a condition to pop
AssertStep ==
    /\ last.call = "exec_next_op" /\ last.op = opcode.DbgAssert
    /\ last.before.value_stack # <<>>

\* the condition it popped was 0
FailedAssert == AssertStep /\ TopOf(last.before.value_stack) = U(0)

\* what a dbg_assert step leaves: the condition is gone and the rest of the
\* interpreter is as before, but for pc + 1 after a condition that is not 0
\* and for the two flags after a condition that is 0
AssertStepEffect ==
    AssertStep =>
        /\ last.res.kind = "Ok"
        /\ interp = IF TopOf(last.before.value_stack) # U(0)
                    THEN [last.before EXCEPT
                            !.value_stack = Front(@, 1),
                            !.pc = WrappingAdd(@, U(1))]
                    ELSE [last.before EXCEPT
                            !.value_stack = Front(@, 1),
                            !.running = FALSE,
                            !.assertion_failed = TRUE]

\* after a failed dbg_assert inside run() the next thing that happens is the
\* return of run() with Ok, the interpreter untouched
RunEndsAfterFailedAssert ==
    (FailedAssert /\ last.via = "run") =>
        /\ last'.call = "run" /\ last'.returned /\ last'.res.kind = "Ok"
        /\ interp' = interp

\* C14: dbg_assert pops the condition. Not 0: pc advances by 1 and nothing
\* else changes, execution continues. 0: the step returns Ok with
\* assertion_failed = true and running = false, pc and the rest of the value
\* stack as they were, and that run() executes no further instruction: it
\* returns.
C14_DbgAssert == []AssertStepEffect /\ [][RunEndsAfterFailedAssert]_vars

\* run() met a dbg_assert with 0 on top of another value
C14_AssertFailedInRun ==
    /\ FailedAssert /\ last.via = "run"
    /\ interp.value_stack # <<>>
    /\ interp.assertion_failed /\ ~interp.running

\* from_bytecode or reset_all has just returned Ok
Loaded == last.call \in {"from_bytecode", "reset_all"} /\ last.res.kind = "Ok"

\* assertion_failed is false in a new interpreter and after a load
FlagClearWhenLoaded == (last.call = "none" \/ Loaded) => ~interp.assertion_failed

\* assertion_failed goes from false to true only in a step that is a failing
\* dbg_assert, and from true to false only in a call of reset_all
FlagChanges ==
    /\ (~interp.assertion_failed /\ interp'.assertion_failed) =>
           (FailedAssert' /\ last'.res.kind = "Ok")
    /\ (interp.assertion_failed /\ ~interp'.assertion_failed) =>
           last'.call = "reset_all"

\* C15: assertion_failed is false after from_bytecode and after reset_all,
\* becomes true only by a failing dbg_assert, and once true stays true
\* through every exec_next_op and run until reset_all is called.
C15_AssertionFailedSticky == []FlagClearWhenLoaded /\ [][FlagChanges]_vars

\* an instruction executed after the assertion had failed, the flag still set
C15_StepAfterFailure ==
    /\ StepOk /\ ~FailedAssert
    /\ last.before.assertion_failed
    /\ interp.assertion_failed
    /\ interp.pc # last.before.pc

\* args holds exactly what push_arg pushed since the last call or syscall
\* that was executed, in push order: it is empty after a load, a call or a
\* syscall, push_arg appends the value it pops, and nothing else touches it
ArgsArePushesSinceCall ==
    CASE last.call = "none" \/ Loaded -> interp.args = <<>>
      [] Executed(opcode.Call) \/ Executed(opcode_Syscall) -> interp.args = <<>>
      [] Executed(opcode.PushArg) ->
           /\ last.before.value_stack # <<>>
           /\ interp.args = Append(last.before.args, TopOf(last.before.value_stack))
      [] OTHER -> interp.args = last.before.args

\* the handler is called by a syscall that found an id to pop, once, and by
\* nothing else
HandlerCalledBySyscallOnly ==
    last.host # <<>> => (Executed(opcode_Syscall) /\ Len(last.host) = 1)

\* C16: syscall pops id and calls the handler exactly once with that id and
\* a copy of args, which is exactly the values pushed by push_arg since the
\* last call or syscall, in push order; when the step finishes args is
\* empty and the value the handler returned is on top of the value stack,
\* above what was below the id.
C16_SyscallHandsOverArgs ==
    /\ ArgsArePushesSinceCall
    /\ HandlerCalledBySyscallOnly
    /\ Executed(opcode_Syscall) =>
          /\ last.before.value_stack # <<>>
          /\ Len(last.host) = 1
          /\ last.host[1].id = TopOf(last.before.value_stack)
          /\ last.host[1].args = last.before.args
          /\ interp.args = <<>>
          /\ interp.value_stack =
                Append(Front(last.before.value_stack, 1), last.host[1].ret)

\* syscall 7 called with the arguments 1 and 2, pushed in this order
C16_SyscallWithTwoArgs ==
    /\ Executed(opcode_Syscall)
    /\ last.host[1].id = U(7)
    /\ last.host[1].args = <<U(1), U(2)>>
    /\ TopOf(interp.value_stack) = last.host[1].ret

\* a code section that is a straight line: catalog instructions only, none
\* of jmp, jmp_if, branch, branch_if, call, and the last one is end
RECURSIVE StraightLine(_)
StraightLine(code) ==
    IF code = <<>> THEN FALSE
    ELSE IF ~(\E i \in DOMAIN Catalog : Catalog[i].byte = code[1]) THEN FALSE
    ELSE IF code[1] \in {opcode.Jmp, opcode.JmpIf, opcode.Branch, opcode.BranchIf, opcode.Call}
    THEN FALSE
    ELSE IF Len(code) < CatalogSize(code[1]) THEN FALSE
    ELSE IF Len(code) = CatalogSize(code[1]) THEN code[1] = opcode.End
    ELSE StraightLine(StrFrom(code, CatalogSize(code[1])))

\* run() has just executed an instruction of a straight-line program that
\* starts at the first byte of the code section
RunTurnOnStraightLine ==
    /\ StepOk /\ last.via = "run"
    /\ interp.start_pc_addr = U(total_header_size - Len(BYTECODE_HEADER))
    /\ StraightLine(code_section(bytecode))

\* C17: run() on a straight-line program that ends in `end` returns, every
\* instruction being executed at most once: a turn of the loop that leaves
\* running true has left the instruction it executed (else the next turn
\* executes it again), and a return stops the loop.
C17_StraightLineRunMovesOn ==
    RunTurnOnStraightLine =>
        /\ interp.running => interp.pc # last.before.pc
        /\ last.op = opcode.Return => ~interp.running

StoreOps == {opcode.Store8, opcode.Store16, opcode.Store32}

LoadOps == {opcode.Load8u, opcode.Load16u, opcode.Load32u}

\* N / 8 for the store_N and load_N_u opcodes
WidthOf(op) ==
    CASE op \in {opcode.Store8, opcode.Load8u} -> 1
      [] op \in {opcode.Store16, opcode.Load16u} -> 2
      [] OTHER -> 4

\* the load_N_u of a store_N
LoadOf(op) ==
    CASE op = opcode.Store8 -> opcode.Load8u
      [] op = opcode.Store16 -> opcode.Load16u
      [] OTHER -> opcode.Load32u

\* byte k (0 is the lowest) of a 32-bit value
ByteOf(value, k) ==
    CASE k = 0 -> value[2] % 256
      [] k = 1 -> value[2] \div 256
      [] k = 2 -> value[1] % 256
      [] OTHER -> value[1] \div 256

\* the low 8 * n bits of a value, zero-extended
LowBits(n, value) ==
    CASE n = 1 -> <<0, value[2] % 256>>
      [] n = 2 -> <<0, value[2]>>
      [] OTHER -> value

\* the 32-bit operand off of the instruction at pc of I
OffOperand(I) ==
    <<MemByte(I.memory, Val(I.pc) + 3) + 256 * MemByte(I.memory, Val(I.pc) + 4),
      MemByte(I.memory, Val(I.pc) + 1) + 256 * MemByte(I.memory, Val(I.pc) + 2)>>

\* n bytes from at lie inside a memory of len bytes
InRange(at, n, len) == Small(at) /\ Val(at) + n <= len

\* base + off of the store just executed, base being the second value popped
StoreAddr == WrappingAdd(Second(last.before.value_stack), OffOperand(last.before))

\* base + off of the load just executed
LoadAddr == WrappingAdd(TopOf(last.before.value_stack), OffOperand(last.before))

\* a store_N that returns Ok has popped value and base, written the low N
\* bits of value little-endian into the N / 8 bytes from base + off, and
\* left every other byte (and everything else but pc) as it was
StoreEffect ==
    (StepOk /\ last.op \in StoreOps) =>
        /\ Len(last.before.value_stack) >= 2
        /\ InRange(StoreAddr, WidthOf(last.op), last.before.memory.len)
        /\ interp = [last.before EXCEPT
                        !.value_stack = Front(@, 2),
                        !.pc = WrappingAdd(@, U(5)),
                        !.memory = interp.memory]
        /\ interp.memory.len = last.before.memory.len
        /\ \A i \in DOMAIN interp.memory.bytes \cup DOMAIN last.before.memory.bytes
                    \cup (Val(StoreAddr)..(Val(StoreAddr) + WidthOf(last.op) - 1)) :
              MemByte(interp.memory, i) =
                  IF i \in Val(StoreAddr)..(Val(StoreAddr) + WidthOf(last.op) - 1)
                  THEN ByteOf(TopOf(last.before.value_stack), i - Val(StoreAddr))
                  ELSE MemByte(last.before.memory, i)

\* a store_N with both operands on the stack and base + off in range
\* returns Ok
StoreInRangeSucceeds ==
    (/\ last.call = "exec_next_op" /\ last.op \in StoreOps
     /\ Len(last.before.value_stack) >= 2
     /\ ~AddC(Second(last.before.value_stack), OffOperand(last.before)).carry
     /\ InRange(StoreAddr, WidthOf(last.op), last.before.memory.len))
        => last.res.kind = "Ok"

\* a load_N_u that returns Ok has replaced base by the N / 8 bytes from
\* base + off, little-endian and zero-extended
LoadEffect ==
    (StepOk /\ last.op \in LoadOps) =>
        /\ last.before.value_stack # <<>>
        /\ InRange(LoadAddr, WidthOf(last.op), last.before.memory.len)
        /\ interp = [last.before EXCEPT
                        !.value_stack = Append(Front(@, 1), TopOf(interp.value_stack)),
                        !.pc = WrappingAdd(@, U(5))]
        /\ \A k \in 0..3 :
              ByteOf(TopOf(interp.value_stack), k) =
                  IF k < WidthOf(last.op)
                  THEN MemByte(last.before.memory, Val(LoadAddr) + k) ELSE 0

\* the load_N_u off that follows a store_N off, with the same base on the
\* stack, pushes the low N bits of the value stored
RoundTrip ==
    (/\ StepOk /\ last.op \in StoreOps
     /\ last'.call = "exec_next_op" /\ last'.op = LoadOf(last.op)
     /\ last'.before = interp
     /\ interp.value_stack # <<>>
     /\ TopOf(interp.value_stack) = Second(last.before.value_stack)
     /\ OffOperand(interp) = OffOperand(last.before))
        => /\ last'.res.kind = "Ok"
           /\ TopOf(interp'.value_stack) =
                 LowBits(WidthOf(last.op), TopOf(last.before.value_stack))

\* C18: for N in 8, 16, 32 and base + off in range, store_N off (value
\* popped first, base second) writes the low N bits of value little-endian
\* into exactly the N / 8 bytes from base + off and leaves every other
\* byte of memory unchanged; a following load_N_u off with the same base
\* pushes the low N bits of value, zero-extended.
C18_StoreLoadRoundTrip ==
    /\ [](StoreEffect /\ StoreInRangeSucceeds /\ LoadEffect)
    /\ [][RoundTrip]_vars

\* load_16_u has read back 0x4567 of the 0x1234567 that store_16 wrote at
\* 104, the byte above still 0
C18_Loaded16OfStored32 ==
    /\ Executed(opcode.Load16u)
    /\ LoadAddr = U(104)
    /\ TopOf(interp.value_stack) = <<0, 17767>>
    /\ MemByte(interp.memory, 104) = 103 /\ MemByte(interp.memory, 105) = 69
    /\ MemByte(interp.memory, 106) = 0

\* the register operand n of the instruction at pc of I: the byte at pc + 1
RegOperand(I) == MemByte(I.memory, Val(I.pc) + 1)

\* the value stack after a set (which pops) or a tee (which peeks)
StackAfterStore(op, stack) ==
    IF op \in {opcode.LocalSet, opcode.GlobalSet} THEN Front(stack, 1) ELSE stack

\* local_set n / local_tee n change slot n of the top frame's locals to the
\* value on top of the stack, and nothing else but the stack (set) and pc
LocalStoreEffect ==
    (StepOk /\ last.op \in {opcode.LocalSet, opcode.LocalTee}) =>
        /\ RegOperand(last.before) < MAX_LOCALS
        /\ last.before.value_stack # <<>> /\ last.before.return_stack # <<>>
        /\ interp = [last.before EXCEPT
                        !.value_stack = StackAfterStore(last.op, @),
                        !.pc = WrappingAdd(@, U(2)),
                        !.return_stack[Len(last.before.return_stack)]
                            .locals[RegOperand(last.before)] = TopOf(last.before.value_stack)]

\* global_set n / global_tee n do the same to slot n of the globals
GlobalStoreEffect ==
    (StepOk /\ last.op \in {opcode.GlobalSet, opcode.GlobalTee}) =>
        /\ RegOperand(last.before) < MAX_GLOBALS
        /\ last.before.value_stack # <<>>
        /\ interp = [last.before EXCEPT
                        !.value_stack = StackAfterStore(last.op, @),
                        !.pc = WrappingAdd(@, U(2)),
                        !.globals[RegOperand(last.before)] = TopOf(last.before.value_stack)]

\* local_get n / global_get n push what slot n holds and change nothing else
\* but pc
GetEffect ==
    /\ Executed(opcode.LocalGet) =>
          /\ RegOperand(last.before) < MAX_LOCALS /\ last.before.return_stack # <<>>
          /\ interp = [last.before EXCEPT
                          !.value_stack = Append(@,
                              TopOf(last.before.return_stack).locals[RegOperand(last.before)]),
                          !.pc = WrappingAdd(@, U(2))]
    /\ Executed(opcode.GlobalGet) =>
          /\ RegOperand(last.before) < MAX_GLOBALS
          /\ interp = [last.before EXCEPT
                          !.value_stack = Append(@, last.before.globals[RegOperand(last.before)]),
                          !.pc = WrappingAdd(@, U(2))]

\* a register instruction with n < 64, its operand on the stack and (for a
\* local) a frame to work on returns Ok
RegisterOpSucceeds ==
    (/\ last.call = "exec_next_op"
     /\ last.op \in {opcode.LocalGet, opcode.LocalSet, opcode.LocalTee,
                     opcode.GlobalGet, opcode.GlobalSet, opcode.GlobalTee}
     /\ Val(last.before.pc) + 1 < last.before.memory.len
     /\ RegOperand(last.before) < 64
     /\ last.op \in {opcode.LocalGet, opcode.GlobalGet} \/ last.before.value_stack # <<>>
     /\ last.op \in {opcode.GlobalGet, opcode.GlobalSet, opcode.GlobalTee}
            \/ last.before.return_stack # <<>>)
        => last.res.kind = "Ok"

\* between the stores the slots keep their values: no other instruction
\* changes the globals, and none but call and return changes the frames
SlotsKept ==
    (last.call = "exec_next_op" /\ last.res.kind \in {"Ok", "Err"}) =>
        /\ (last.res.kind = "Err" \/ last.op \notin {opcode.GlobalSet, opcode.GlobalTee})
               => interp.globals = last.before.globals
        /\ (last.res.kind = "Err" \/ last.op \notin {opcode.LocalSet, opcode.LocalTee,
                                                     opcode.Call, opcode.Return})
               => interp.return_stack = last.before.return_stack

\* no slot has been stored to after a load: all hold 0
SlotsZeroWhenLoaded ==
    Loaded => /\ \A n \in 0..(MAX_GLOBALS - 1) : interp.globals[n] = U(0)
              /\ Len(interp.return_stack) = 1
              /\ \A n \in 0..(MAX_LOCALS - 1) : interp.return_stack[1].locals[n] = U(0)

RegisterSlots ==
    /\ LocalStoreEffect /\ GlobalStoreEffect /\ GetEffect
    /\ RegisterOpSucceeds /\ SlotsKept /\ SlotsZeroWhenLoaded

\* a call has just been executed and the first instruction of the callee is
\* a local_get that returns Ok: no slot of the new frame has been stored to
FirstGetOfFrame ==
    /\ Executed(opcode.Call)
    /\ last'.call = "exec_next_op" /\ last'.op = opcode.LocalGet /\ last'.res.kind = "Ok"

\* C19, as stated: the register instructions work on slot n as described,
\* and a local_get n of a slot never stored to in its frame pushes 0.
C19_RegisterSlotsAsStated ==
    /\ []RegisterSlots
    /\ [][FirstGetOfFrame => TopOf(interp'.value_stack) = U(0)]_vars

\* C19: for n < 64 (the byte at pc + 1), local_set n / global_set n pop v
\* and change exactly slot n of the top frame's locals / of the globals;
\* local_tee n / global_tee n store the same way and leave the value stack
\* as it is; a later local_get n in the same frame / global_get n pushes
\* the value stored last, and where nothing was stored 0 or, in a slot of a
\* frame that the call filled, the argument; locals and globals of the
\* same index do not affect each other.
C19_RegisterSlots ==
    /\ []RegisterSlots
    /\ [][FirstGetOfFrame =>
            TopOf(interp'.value_stack) =
                IF RegOperand(interp) < Len(last.before.args)
                THEN last.before.args[RegOperand(interp) + 1] ELSE U(0)]_vars

\* local_get 1 has pushed the 4 stored in local 1 while global 1 holds 3
C19_LocalAndGlobalOfSameIndex ==
    /\ Executed(opcode.LocalGet) /\ RegOperand(last.before) = 1
    /\ TopOf(interp.value_stack) = U(4)
    /\ interp.globals[1] = U(3)
    /\ Second(interp.value_stack) = U(3)

\* the binary arithmetic instructions of the claim
ArithOps == {opcode.Add, opcode.Sub, opcode.Mul, opcode.Shiftl, opcode.Shiftr}

\* a OP b modulo 2^32, the shifts by b mod 32 and the right shift zero-filling
ArithResult(op, a, b) ==
    CASE op = opcode.Add -> WrappingAdd(a, b)
      [] op = opcode.Sub -> WrappingSub(a, b)
      [] op = opcode.Mul -> MulC(a, b).v
      [] op = opcode.Shiftl -> ShlN(a, b[2] % 32)
      [] OTHER -> ShrN(a, b[2] % 32)

\* the same result in plain integers, for operands below 256 (b below 8
\* for the shifts) and a >= b for sub
ArithResultOfSmall(op, a, b) ==
    CASE op = opcode.Add -> a + b
      [] op = opcode.Sub -> a - b
      [] op = opcode.Mul -> a * b
      [] op = opcode.Shiftl -> a * Pow2(b)
      [] OTHER -> a \div Pow2(b)

\* exec_next_op was called with one of these instructions at pc and two
\* operands on the stack (a right shift by 32 or more is left aside)
ArithStep ==
    /\ last.call = "exec_next_op" /\ last.op \in ArithOps
    /\ Len(last.before.value_stack) >= 2
    /\ last.op = opcode.Shiftr => LtU(TopOf(last.before.value_stack), U(32))

\* a value below n
Below(v, n) == v[1] = 0 /\ v[2] < n

\* both operands are below 256 (b below 8 for the shifts), and a >= b for sub
SmallOperands(op, a, b) ==
    /\ Below(a, 256)
    /\ Below(b, IF op \in {opcode.Shiftl, opcode.Shiftr} THEN 8 ELSE 256)
    /\ op = opcode.Sub => a[2] >= b[2]

\* C20: a binary arithmetic instruction pops b (top) and then a and pushes
\* a OP b, the stack one shorter: add, sub and mul push the result modulo
\* 2^32 for every pair of operands and never fail on overflow, shiftl
\* shifts by b mod 32, shiftr is a logical right shift.
C20_BinaryArithmetic ==
    ArithStep =>
        /\ last.res.kind = "Ok"
        /\ interp = [last.before EXCEPT
                        !.value_stack = Append(Front(@, 2),
                            ArithResult(last.op, Second(@), TopOf(@))),
                        !.pc = WrappingAdd(@, U(1))]
        /\ SmallOperands(last.op, Second(last.before.value_stack),
                         TopOf(last.before.value_stack))
              => TopOf(interp.value_stack) =
                    U(ArithResultOfSmall(last.op, Second(last.before.value_stack)[2],
                                         TopOf(last.before.value_stack)[2]))

\* ------------------------------------------------------------------------
\* Comparisons, assembler operands and labels, the args buffer, loading
\* ------------------------------------------------------------------------

CompareOps == {opcode.Eq, opcode.Lt, opcode.Gt, opcode.Le, opcode.Ge}

\* whether a REL b holds, a and b taken as unsigned 32-bit numbers
Holds(op, a, b) ==
    CASE op = opcode.Eq -> a = b
      [] op = opcode.Lt -> a[1] < b[1] \/ (a[1] = b[1] /\ a[2] < b[2])
      [] op = opcode.Gt -> a[1] > b[1] \/ (a[1] = b[1] /\ a[2] > b[2])
      [] op = opcode.Le -> a[1] < b[1] \/ (a[1] = b[1] /\ a[2] <= b[2])
      [] OTHER -> a[1] > b[1] \/ (a[1] = b[1] /\ a[2] >= b[2])

\* exec_next_op was called with one of the instructions of ops at pc and
\* two operands on the stack
CompareStep(ops) ==
    /\ last.call = "exec_next_op" /\ last.op \in ops
    /\ Len(last.before.value_stack) >= 2

\* the step popped b (top) and then a, pushed 1 if a REL b and 0 if not,
\* and moved pc on by 1
CompareEffect ==
    /\ last.res.kind = "Ok"
    /\ interp = [last.before EXCEPT
                    !.value_stack = Append(Front(@, 2),
                        IF Holds(last.op, Second(@), TopOf(@)) THEN U(1) ELSE U(0)),
                    !.pc = WrappingAdd(@, U(1))]

\* C21: each of eq, lt, gt, le, ge is executable, pops b and then a, and
\* pushes exactly 1 if a REL b holds and exactly 0 otherwise, pc advancing
\* by 1.
C21_Comparisons == CompareStep(CompareOps) => CompareEffect

\* the same for the four comparisons that have an arm in exec_next_op
C21_OrderComparisons == CompareStep(CompareOps \ {opcode.Eq}) => CompareEffect

\* the instructions that take a register operand
RegisterOps == {opcode.LocalGet, opcode.LocalSet, opcode.LocalTee,
                opcode.GlobalGet, opcode.GlobalSet, opcode.GlobalTee}

\* the words of the statement that parse_elems is about to read
WordsAhead == iter_op_args(slice_until(parser, rest.s, ";").v.word)

\* parse_elems is about to read a statement made of a mnemonic that takes a
\* register and one operand
RegisterStatementAhead ==
    /\ Parsing
    /\ Head(rest.s) \notin {"\n", "\r", " ", "#", "*", ":"}
    /\ slice_until(parser, rest.s, ";").ok
    /\ Len(WordsAhead) = 2
    /\ match_op_name(WordsAhead[1]).known
    /\ match_op_name(WordsAhead[1]).opcode \in RegisterOps

\* the operand of that statement is a label reference
LabelRefAhead == Head(WordsAhead[2]) \in {"@", "."}

\* the operand of that statement is an integer literal
IntegerAhead == ~LabelRefAhead /\ parse_i32(parser, WordsAhead[2]).ok

\* the number of code bytes emitted by the elements before the k-th
RECURSIVE BytesBefore(_, _)
BytesBefore(es, k) ==
    IF k <= 1 THEN 0
    ELSE BytesBefore(es, k - 1)
            + (IF es[k - 1].kind = "Label" THEN 0 ELSE Op_size_bytes(es[k - 1].op))

\* in a module, every register operand is the one byte after its opcode
RegistersAreOneByte ==
    Assembled =>
        \A k \in DOMAIN elems :
            (elems[k].kind = "Op" /\ elems[k].op.opcode \in RegisterOps) =>
                SubSeq(code_section(bytecode), BytesBefore(elems, k) + 1,
                       BytesBefore(elems, k) + Op_size_bytes(elems[k].op))
                    = <<elems[k].op.opcode, elems[k].op.arg.n>>

\* what the statement's operand makes of the statement: accepted as a
\* register for 0..=255, UnexpectedRegisterId for any other integer,
\* UnexpectedImmArgSize for a label reference
RegisterOperandChecked ==
    RegisterStatementAhead =>
        CASE LabelRefAhead ->
               stage' = "asm_error" /\ error'.kind = "UnexpectedImmArgSize"
          [] IntegerAhead /\ parse_i32(parser, WordsAhead[2]).v \in 0..255 ->
               /\ stage' = "parse"
               /\ elems' = Append(elems,
                      ElemOp([opcode |-> match_op_name(WordsAhead[1]).opcode,
                              arg |-> Register(parse_i32(parser, WordsAhead[2]).v)]))
               /\ parser'.op_size_bytes = parser.op_size_bytes + 2
          [] IntegerAhead /\ parse_i32(parser, WordsAhead[2]).v \notin 0..255 ->
               /\ stage' = "asm_error"
               /\ error'.kind = "UnexpectedRegisterId"
               /\ error'.info = parse_i32(parser, WordsAhead[2]).v
          [] OTHER -> TRUE

\* C22: for local_get/set/tee and global_get/set/tee the assembler accepts
\* every integer literal in 0..=255 and encodes it as one byte, rejects
\* every other integer with UnexpectedRegisterId, and rejects a label
\* reference (@L or .L) with UnexpectedImmArgSize.
C22_RegisterOperands == []RegistersAreOneByte /\ [][RegisterOperandChecked]_vars

\* the same with 255 left out of the accepted literals
RegisterOperandCheckedBelow255 ==
    \/ RegisterStatementAhead /\ IntegerAhead /\ parse_i32(parser, WordsAhead[2]).v = 255
    \/ RegisterOperandChecked

C22_RegisterOperandsBelow255 ==
    []RegistersAreOneByte /\ [][RegisterOperandCheckedBelow255]_vars

\* parse_elems is about to read a label definition ':NAME:'
LabelAhead ==
    /\ Parsing
    /\ Head(rest.s) = ":"
    /\ slice_until(parser, StrFrom(rest.s, 1), ":").ok

\* the NAME of that definition
NameAhead == slice_until(parser, StrFrom(rest.s, 1), ":").v.word

\* a definition of a new label records the number of code bytes emitted by
\* the statements before it; a redefinition fails with LabelAlreadyExists
\* and leaves the labels as they were
LabelDefinitionStep ==
    LabelAhead =>
        IF NameAhead \notin DOMAIN parser.labels
        THEN /\ stage' = "parse"
             /\ parser'.labels = Insert(parser.labels, NameAhead,
                                        BytesBefore(elems, Len(elems) + 1))
             /\ elems'[Len(elems')].kind = "Label"
        ELSE /\ stage' = "asm_error"
             /\ error'.kind = "LabelAlreadyExists" /\ error'.info = NameAhead
             /\ parser'.labels = parser.labels

\* a recorded position is never changed
PositionsKept ==
    \A n \in DOMAIN parser.labels :
        n \in DOMAIN parser'.labels /\ parser'.labels[n] = parser.labels[n]

\* a failed assembly goes no further, and has produced no module
FailedAssemblyHalts ==
    stage \in {"asm_error", "asm_panic"} =>
        bytecode = <<>> /\ labels = <<>> /\ interp = Interpreter_default

\* C23: ':NAME:' records for NAME the number of code bytes emitted by all
\* statements before it; defining a name again fails with
\* LabelAlreadyExists, the assembly halts without a module, and the
\* position of the first definition is not overwritten.
C23_LabelDefinitions ==
    /\ []FailedAssemblyHalts
    /\ [][LabelDefinitionStep /\ PositionsKept
          /\ (stage \in {"asm_error", "asm_panic"} => UNCHANGED vars)]_vars

\* a redefinition at another position was refused, the first one standing
C23_RedefinitionRefused ==
    /\ stage = "asm_error" /\ error.kind = "LabelAlreadyExists"
    /\ parser.labels[error.info] = 0
    /\ parser.op_size_bytes = 1
    /\ bytecode = <<>>

\* the elements whose operand is a label reference of kind t
RefsOf(t) == {k \in DOMAIN elems : elems[k].kind # "Label" /\ elems[k].op.arg.t = t}

\* the elements whose operand refers to a label that is not defined
\* anywhere in the source
UnknownRefs ==
    {k \in RefsOf("AbsLabelRef") \cup RefsOf("OffLabelRef") :
        elems[k].op.arg.name \notin DOMAIN parser.labels}

\* the four operand bytes of the k-th element in the module, as a number
OperandInModule(k) ==
    FromLeBytes(SubSeq(code_section(bytecode), BytesBefore(elems, k) + 2,
                       BytesBefore(elems, k) + 5))

\* in a module, the operand '@L' is CODE_START + position(L), wherever L is
\* defined
AbsoluteRefsResolved ==
    Assembled =>
        \A k \in RefsOf("AbsLabelRef") :
            /\ elems[k].op.arg.name \in DOMAIN parser.labels
            /\ OperandInModule(k) = U(CODE_START + parser.labels[elems[k].op.arg.name])

\* parse_elems has read the whole source
SourceRead == stage = "parse" /\ (~rest.some \/ rest.s = <<>>)

\* a reference to an unknown label ends the assembly with UnknownLabel(L),
\* L being the first such reference
UnknownRefFails ==
    (SourceRead /\ UnknownRefs # {}) =>
        /\ stage' = "asm_error"
        /\ error'.kind = "UnknownLabel"
        /\ \E k \in UnknownRefs :
              /\ \A j \in UnknownRefs : k <= j
              /\ error'.info = elems[k].op.arg.name
        /\ bytecode' = <<>>

\* C24: '@L' in any numeric operand resolves to CODE_START + position(L),
\* the same whether L is defined before or after the reference; a
\* reference to a label defined nowhere fails with UnknownLabel(L) and no
\* module is produced.
C24_AbsoluteLabelRefs ==
    /\ []AbsoluteRefsResolved
    /\ []FailedAssemblyHalts
    /\ [][UnknownRefFails]_vars

\* a module with a reference to a label defined later, one to a label defined
\* earlier, and one in the operand of a load
C24_ForwardAndBackwardRefs ==
    /\ Assembled
    /\ \E k \in RefsOf("AbsLabelRef") :
          /\ BytesBefore(elems, k) < parser.labels[elems[k].op.arg.name]
          /\ OperandInModule(k) = U(18)
    /\ \E k \in RefsOf("AbsLabelRef") :
          /\ BytesBefore(elems, k) > parser.labels[elems[k].op.arg.name]
          /\ OperandInModule(k) = U(17)
    /\ \E k \in RefsOf("AbsLabelRef") : elems[k].op.opcode = opcode.Load8u

\* in a module, the operand '.L' of the k-th element is the displacement
\* between the code bytes emitted up to that element and position(L)
OffsetRefsResolved ==
    Assembled =>
        \A k \in RefsOf("OffLabelRef") :
            OperandInModule(k) =
                I32AsU32(BytesBefore(elems, k) - parser.labels[elems[k].op.arg.name])

\* in a module, two '.L' operands with the same L differ by the distance
\* between the two elements
OffsetRefsDifferByDistance ==
    Assembled =>
        \A j, k \in RefsOf("OffLabelRef") :
            elems[j].op.arg.name = elems[k].op.arg.name =>
                WrappingSub(OperandInModule(k), OperandInModule(j)) =
                    I32AsU32(BytesBefore(elems, k) - BytesBefore(elems, j))

\* C25: '.L' resolves to the signed 32-bit displacement between the
\* encode position of the enclosing instruction (the code bytes emitted up
\* to it) and position(L); two '.L' references to the same label at
\* different code offsets resolve to values that differ by the distance
\* between them.
C25_OffsetLabelRefs == OffsetRefsResolved /\ OffsetRefsDifferByDistance

\* exec_next_op was called with push_arg at pc
PushArgStep == last.call = "exec_next_op" /\ last.op = opcode.PushArg

\* push_arg on a full args buffer returns ArgStackFull and changes nothing;
\* on a buffer with room and a value to pop it appends the value
PushArgRespectsBound ==
    PushArgStep =>
        IF Len(last.before.args) >= MAX_ARGS
        THEN /\ last.res.kind = "Err" /\ last.res.err = "ArgStackFull"
             /\ interp = last.before
        ELSE last.before.value_stack # <<>> =>
                /\ last.res.kind = "Ok"
                /\ interp.args = Append(last.before.args, TopOf(last.before.value_stack))

\* C26: in every reachable state args holds at most MAX_ARGS = 12 values:
\* push_arg executed when args already holds 12 values returns ArgStackFull
\* without appending, and args is empty after every call and every syscall.
C26_ArgsBounded ==
    /\ MAX_ARGS = 12
    /\ Len(interp.args) <= MAX_ARGS
    /\ PushArgRespectsBound
    /\ (Executed(opcode.Call) \/ Executed(opcode_Syscall)) => interp.args = <<>>

\* the thirteenth push_arg in a row was refused, args holding the twelve
\* values pushed before it
C26_ThirteenthPushRefused ==
    /\ Refused(opcode.PushArg, "ArgStackFull")
    /\ Len(interp.args) = MAX_ARGS
    /\ interp.args[1] = U(1) /\ interp.args[12] = U(12)
    /\ TopOf(interp.value_stack) = U(13)

\* the module does not begin with the four bytes 'malu'
WithoutMagic(B) == Len(B) < 4 \/ SubSeq(B, 1, 4) # <<109, 97, 108, 117>>

\* from_bytecode or reset_all has just been called with a module of Bs
LoadCallWith(Bs) ==
    last.call \in {"from_bytecode", "reset_all"} /\ last.module \in Bs

\* the call returned InvalidBytecodeHeader, and reset_all left the
\* interpreter as it was
HeaderRefused ==
    /\ last.res.kind = "Err" /\ last.res.err = "InvalidBytecodeHeader"
    /\ last.call = "reset_all" => interp = last.before

\* C27: from_bytecode(B) and reset_all(B) return InvalidBytecodeHeader for
\* every B that does not begin with 'malu', those shorter than four bytes
\* included, and reset_all then leaves the whole interpreter unchanged.
C27_BadHeaderRefused ==
    LoadCallWith({B \in RawModules \cup ResetModules : WithoutMagic(B)}) => HeaderRefused

\* the same for the modules of at least four bytes
C27_BadHeaderOfFourBytesRefused ==
    LoadCallWith({B \in RawModules \cup ResetModules : WithoutMagic(B) /\ Len(B) >= 4})
        => HeaderRefused

\* the memory begins with the module without its magic and is zero after it
MemoryHoldsImage(B) ==
    /\ \A i \in 0..(Len(B) - 5) : MemByte(interp.memory, i) = B[i + 5]
    /\ \A a \in DOMAIN interp.memory.bytes :
          a >= Len(B) - 4 => interp.memory.bytes[a] = 0

\* C28: after from_bytecode(B), and after reset_all(B) on an interpreter
\* that held a module of any length, the memory is len(B) - 4 + 65536 bytes
\* long, begins with B[4..] and is zero from there on.
C28_MemoryAfterLoad ==
    Loaded =>
        /\ interp.memory.len = Len(last.module) - 4 + 65536
        /\ MemoryHoldsImage(last.module)

\* what a load does to the memory: from_bytecode makes it len(B) + 65536
\* bytes long, reset_all leaves its length alone; both fill it as stated
C28_MemoryAfterLoadInCode ==
    Loaded =>
        /\ interp.memory.len = IF last.call = "from_bytecode"
                               THEN Len(last.module) + MIN_HEAP_SIZE
                               ELSE last.before.memory.len
        /\ MemoryHoldsImage(last.module)

\* Parser::parse as a function gives what the assembly of the source, step
\* by step, has come to
ParseAgrees ==
    /\ stage = "module" /\ src.some =>
          Parser_parse(src.s) = Ok([code |-> bytecode, labels |-> parser.labels])
    /\ stage \in {"asm_error", "asm_panic"} =>
          ~Parser_parse(src.s).ok /\ Parser_parse(src.s).err = error

\* the characters the assembler skips between statements
Blanks == {" ", "\r", "\n"}

\* the nearest character before / after position i that is not a blank
\* ("" when there is none)
InkBefore(s, i) ==
    LET js == {j \in 1..(i - 1) : s[j] \notin Blanks}
    IN  IF js = {} THEN "" ELSE s[CHOOSE j \in js : \A k \in js : k <= j]

InkAfter(s, i) ==
    LET js == {j \in (i + 1)..Len(s) : s[j] \notin Blanks}
    IN  IF js = {} THEN "" ELSE s[CHOOSE j \in js : \A k \in js : j <= k]

\* position i lies inside the NAME of a ':NAME:'
InLabelName(s, i) == Cardinality({j \in 1..(i - 1) : s[j] = ":"}) % 2 = 1

\* the first character of the statement that position i belongs to
LeadOf(s, i) ==
    LET bs == {j \in 1..(i - 1) : s[j] \in {";", ":"}}
        b  == IF bs = {} THEN 0 ELSE CHOOSE j \in bs : \A k \in bs : k <= j
    IN  InkAfter(s, b)

\* the blank at position i stands between statements, after the last ';',
\* or before the ';' that ends a statement
BlankAtEdge(s, i) ==
    /\ s[i] \in Blanks /\ ~InLabelName(s, i)
    /\ \/ InkBefore(s, i) \in {"", ";", ":"}
       \/ InkAfter(s, i) \in {"", ";"}

\* the blank at position i follows another blank inside a statement
BlankRepeated(s, i) ==
    s[i] \in Blanks /\ ~InLabelName(s, i) /\ i > 1 /\ s[i - 1] \in Blanks

\* the text without the blanks that the grammar makes free: none at the
\* edges of statements, one space between a mnemonic and its argument
Squeeze(s) ==
    LET kept == {i \in 1..Len(s) : ~BlankAtEdge(s, i) /\ ~BlankRepeated(s, i)}
        at(k) == CHOOSE i \in kept : Cardinality({j \in kept : j <= i}) = k
    IN  [k \in 1..Cardinality(kept) |->
            IF s[at(k)] \in Blanks /\ ~InLabelName(s, at(k)) THEN " " ELSE s[at(k)]]

\* the assembly of the source has ended
AssemblyEnded == src.some /\ stage \in {"module", "asm_error", "asm_panic"}

\* the source and the source without its free blanks assemble to the same
\* module, or both fail
SameAsSqueezed ==
    IF stage = "module"
    THEN Parser_parse(Squeeze(src.s)).ok /\ Parser_parse(Squeeze(src.s)).v.code = bytecode
    ELSE ~Parser_parse(Squeeze(src.s)).ok

\* C29: the assembler is whitespace-insensitive: spaces, carriage returns
\* and newlines inserted or removed between statements, between a mnemonic
\* and its argument, between '#ARG' and its ';', and after the final ';'
\* never change the module and never make an assembling source fail.
C29_WhitespaceInsensitive == AssemblyEnded => SameAsSqueezed

\* a blank stands between the operand of a '#ARG;' and its ';'
BlankAfterShorthandOperand(s) ==
    \E i \in 1..Len(s) :
        s[i] \in Blanks /\ InkAfter(s, i) = ";" /\ LeadOf(s, i) = "#"

\* the same for the sources without a blank between '#ARG' and ';'
C29_WhitespaceElsewhere ==
    (AssemblyEnded /\ ~BlankAfterShorthandOperand(src.s)) => SameAsSqueezed

\* where in the source the label is defined: the place of its ':NAME:'
DefinedAt(name) ==
    CHOOSE i \in 1..Len(src.s) :
        /\ SubSeq(src.s, i, i + Len(name) + 1) = <<":">> \o name \o <<":">>
        /\ ~InLabelName(src.s, i)
        /\ \A j \in 1..(i - 1) :
              SubSeq(src.s, j, j + Len(name) + 1) = <<":">> \o name \o <<":">>
                  => InLabelName(src.s, j)

\* the label list names every label once with its position, in the order
\* of the definitions
LabelsInDefinitionOrder ==
    /\ Len(labels) = Cardinality(DOMAIN parser.labels)
    /\ \A i \in DOMAIN labels :
          /\ labels[i][1] \in DOMAIN parser.labels
          /\ labels[i][2] = parser.labels[labels[i][1]]
    /\ \A i, j \in DOMAIN labels :
          i < j => DefinedAt(labels[i][1]) < DefinedAt(labels[j][1])

\* another assembly of the same source cannot give another module or
\* another label list
OneOutcome ==
    /\ Parser_parse(src.s).ok /\ Parser_parse(src.s).v.code = bytecode
    /\ \A l \in SortedLabels(parser.labels) :
          labels = [i \in DOMAIN l |-> <<l[i], parser.labels[l[i]]>>]

\* C30: assembling the same source twice gives the same module bytes and
\* the same label list in the same order, the order in which the labels
\* are defined in the source, also when several labels share a position.
C30_AssemblyDeterministic ==
    (stage = "module" /\ src.some) => (OneOutcome /\ LabelsInDefinitionOrder)

\* no two labels of the source have the same position
PositionsDiffer ==
    \A m, n \in DOMAIN parser.labels : m # n => parser.labels[m] # parser.labels[n]

\* the same for the sources whose labels all have different positions
C30_DeterministicForDistinctPositions ==
    (stage = "module" /\ src.some /\ PositionsDiffer) =>
        (OneOutcome /\ LabelsInDefinitionOrder)

\* ------------------------------------------------------------------------
\* Errors of single instructions, the decoder, and what a failed step leaves
\* ------------------------------------------------------------------------

\* exec_next_op was called with the instruction op at pc
StepOn(op) == last.call = "exec_next_op" /\ last.op = op

\* the target pc + offset of the branch at pc, offset being the top of the
\* stack, is a 32-bit address at or past the end of the memory
TargetPastMemory ==
    /\ last.before.value_stack # <<>>
    /\ ~AddC(TopOf(last.before.value_stack), last.before.pc).carry
    /\ ~LtU(WrappingAdd(TopOf(last.before.value_stack), last.before.pc),
            U(last.before.memory.len))

\* what the instruction op does with a target past the memory and with an
\* empty stack
RefusesBadTarget(op) ==
    StepOn(op) =>
        /\ TargetPastMemory =>
              last.res = ResErr("InvalidJumpAddr",
                  WrappingAdd(TopOf(last.before.value_stack), last.before.pc))
        /\ last.before.value_stack = <<>> => last.res = StackEmpty

\* a step of run() that failed is the last one of the run
RunStopsOnError ==
    (last.call = "exec_next_op" /\ last.via = "run" /\ last.res.kind = "Err")
        => stage = "idle"

\* C31: branch is range-checked and surfaces its errors: with a target
\* pc + offset >= memory.len() the step returns InvalidJumpAddr, on an
\* empty value stack it returns UnexpectedValStackEmpty; in neither case
\* does exec_next_op return Ok, so that run() stops.
C31_BranchSurfacesErrors == RefusesBadTarget(opcode.Branch) /\ RunStopsOnError

\* the same for branch_if with a condition that holds
C31_BranchIfSurfacesErrors ==
    (Len(last.before.value_stack) # 1 /\ (Len(last.before.value_stack) >= 2
         => Second(last.before.value_stack) # U(0)))
        => (RefusesBadTarget(opcode.BranchIf) /\ RunStopsOnError)

\* the operand kind the catalog gives to a byte: "none", "reg", "num", or
\* "unassigned"
CatalogKind(b) ==
    IF \E i \in DOMAIN Catalog : Catalog[i].byte = b
    THEN Catalog[CHOOSE i \in DOMAIN Catalog : Catalog[i].byte = b].kind
    ELSE "unassigned"

\* the operand width of a kind
KindWidth(kind) == CASE kind = "reg" -> 1 [] kind = "num" -> 4 [] OTHER -> 0

\* the item the catalog makes of the bytes ahead
CatalogItem(bytes) ==
    CASE CatalogKind(Head(bytes)) = "unassigned" -> MaybeUnknown(Head(bytes))
      [] CatalogKind(Head(bytes)) = "reg" -> MaybeOp(Head(bytes), RawRegister(bytes[2]))
      [] CatalogKind(Head(bytes)) = "num" ->
            MaybeOp(Head(bytes), RawNum(FromLeBytes(SubSeq(bytes, 2, 5))))
      [] OTHER -> MaybeOp(Head(bytes), NoRawArg)

\* the items of a code section by the catalog, up to the end of the input
RECURSIVE CatalogItems(_)
CatalogItems(bytes) ==
    IF bytes = <<>> \/ Len(bytes) < 1 + KindWidth(CatalogKind(Head(bytes))) THEN <<>>
    ELSE <<CatalogItem(bytes)>>
            \o CatalogItems(StrFrom(bytes, 1 + KindWidth(CatalogKind(Head(bytes)))))

\* the decoder has run over the code section of the module
DecoderRan == stage \notin {"parse", "asm_error", "asm_panic", "module"}

\* C32: the decoder classifies every byte by the catalog: each assigned
\* opcode (0x01-0x0c, 0x0e-0x33) yields Op with no operand, a 1-byte
\* register operand or a 4-byte little-endian operand as the catalog says,
\* every unassigned byte (0x00, 0x0d, above 0x33) yields Unknown(byte)
\* consuming one byte; the decoder stops at the end of the input.
C32_DecoderFollowsCatalog ==
    /\ {b \in 0..255 : CatalogKind(b) # "unassigned"} = (1..12) \cup (14..51)
    /\ DecoderRan => decoded = CatalogItems(code_section(bytecode))

\* the bytes on which try_parse_op and the catalog part: 0x0d, the four
\* extend opcodes, and syscall
PartingBytes == {13, 44, 45, 46, 47, 51}

\* the same for the modules without such a byte in an opcode position
C32_DecoderFollowsCatalogElsewhere ==
    (DecoderRan /\ \A i \in DOMAIN CatalogItems(code_section(bytecode)) :
                      CatalogItems(code_section(bytecode))[i].opcode \notin PartingBytes)
        => decoded = CatalogItems(code_section(bytecode))

SignedLoadOps == {opcode.Load8s, opcode.Load16s, opcode.Load32s}

\* N / 8 for the load_N_s opcodes
SignedWidthOf(op) ==
    CASE op = opcode.Load8s -> 1 [] op = opcode.Load16s -> 2 [] OTHER -> 4

\* the low 8 * n bits of a value, sign-extended to 32 bits
SignExtend(n, value) ==
    CASE n = 1 -> IF value[2] % 256 >= 128 THEN <<65535, 65280 + (value[2] % 256)>>
                  ELSE <<0, value[2] % 256>>
      [] n = 2 -> IF value[2] >= HALF16 THEN <<65535, value[2]>> ELSE <<0, value[2]>>
      [] OTHER -> value

\* the n bytes of memory from at, little-endian
BytesAt(memory, at, n) ==
    <<(IF n > 2 THEN MemByte(memory, at + 2) + 256 * MemByte(memory, at + 3) ELSE 0),
      MemByte(memory, at) + (IF n > 1 THEN 256 * MemByte(memory, at + 1) ELSE 0)>>

\* a load with its base on the stack and base + off in range
LoadInRange(op, n) ==
    /\ StepOn(op)
    /\ last.before.value_stack # <<>>
    /\ ~AddC(TopOf(last.before.value_stack), OffOperand(last.before)).carry
    /\ InRange(LoadAddr, n, last.before.memory.len)

\* such a load has replaced base by this value and moved pc on by 5
LoadPushes(value) ==
    /\ last.res = ResOk
    /\ interp = [last.before EXCEPT !.value_stack = Append(Front(@, 1), value),
                                    !.pc = WrappingAdd(@, U(5))]

\* C33: all six loads are executable: load_N_u pushes the N / 8 bytes at
\* base + off zero-extended, load_N_s pushes them sign-extended, each pops
\* one base and moves pc on by 5.
C33_AllLoadsExecutable ==
    /\ \A op \in LoadOps :
          LoadInRange(op, WidthOf(op)) =>
              LoadPushes(BytesAt(last.before.memory, Val(LoadAddr), WidthOf(op)))
    /\ \A op \in SignedLoadOps :
          LoadInRange(op, SignedWidthOf(op)) =>
              LoadPushes(SignExtend(SignedWidthOf(op),
                  BytesAt(last.before.memory, Val(LoadAddr), SignedWidthOf(op))))

\* the same for load_8_u, load_16_u and load_32_u alone
C33_UnsignedLoadsExecutable ==
    \A op \in LoadOps :
        LoadInRange(op, WidthOf(op)) =>
            LoadPushes(BytesAt(last.before.memory, Val(LoadAddr), WidthOf(op)))

UnaryOps == {opcode.Eqz, opcode.Neg, opcode.Extend8_32u, opcode.Extend16_32u,
             opcode.Extend8_32s, opcode.Extend16_32s}

\* what a unary instruction makes of a
UnaryValue(op, a) ==
    CASE op = opcode.Eqz -> IF a = U(0) THEN U(1) ELSE U(0)
      [] op = opcode.Neg -> Neg32(a)
      [] op = opcode.Extend8_32u -> LowBits(1, a)
      [] op = opcode.Extend16_32u -> LowBits(2, a)
      [] op = opcode.Extend8_32s -> SignExtend(1, a)
      [] OTHER -> SignExtend(2, a)

\* a unary instruction with its operand on the stack
UnaryStep(op) == StepOn(op) /\ last.before.value_stack # <<>>

\* C34: the unary instructions are executable and keep the stack depth: eqz
\* replaces a by 1 if a = 0 and by 0 otherwise, neg by (2^32 - a) mod 2^32,
\* extend_8_32_u / extend_16_32_u by the low 8 / 16 bits zero-extended,
\* extend_8_32_s / extend_16_32_s by the low bits sign-extended; each moves
\* pc on by 1.
C34_UnaryInstructions ==
    \A op \in UnaryOps :
        UnaryStep(op) =>
            /\ last.res = ResOk
            /\ interp = [last.before EXCEPT
                            !.value_stack = Append(Front(@, 1), UnaryValue(op, TopOf(@))),
                            !.pc = WrappingAdd(@, U(1))]

LocalOps == {opcode.LocalGet, opcode.LocalSet, opcode.LocalTee}

GlobalOps == {opcode.GlobalGet, opcode.GlobalSet, opcode.GlobalTee}

\* a register instruction whose operand n is 64 or more, with the value it
\* stores on the stack and, for a local, a frame to look into
BadRegisterStep(ops) ==
    /\ last.call = "exec_next_op" /\ last.op \in ops
    /\ Val(last.before.pc) + 1 < last.before.memory.len
    /\ RegOperand(last.before) >= MAX_LOCALS
    /\ last.op \notin {opcode.LocalGet, opcode.GlobalGet} => last.before.value_stack # <<>>
    /\ last.op \in LocalOps => last.before.return_stack # <<>>

\* the failing step has changed no local and no global slot
SlotsUntouched ==
    /\ interp.globals = last.before.globals
    /\ interp.return_stack = last.before.return_stack

\* such a step of these instructions returns this error of n
RegisterRefused(ops, err) ==
    BadRegisterStep(ops) =>
        /\ last.res = ResErr(err, U(RegOperand(last.before)))
        /\ SlotsUntouched

\* C35: a register operand n >= 64 is rejected at run time with the error of
\* its register file: local_get / local_set / local_tee return
\* InvalidLocalId(n), global_get / global_set / global_tee return
\* InvalidGlobalId(n); the failing step changes no local or global slot.
C35_BadRegisterRejected ==
    /\ RegisterRefused(LocalOps, "InvalidLocalId")
    /\ RegisterRefused(GlobalOps, "InvalidGlobalId")

\* the same with global_get left out
C35_BadRegisterRejectedButGlobalGet ==
    /\ RegisterRefused(LocalOps, "InvalidLocalId")
    /\ RegisterRefused(GlobalOps \ {opcode.GlobalGet}, "InvalidGlobalId")

\* the instruction just stepped adds two operands that are on the stack (or
\* in the code) and whose sum is 2^32 or more
SumPastU32 ==
    /\ last.call = "exec_next_op"
    /\ \/ /\ last.op \in StoreOps
          /\ Len(last.before.value_stack) >= 2
          /\ InRange(WrappingAdd(last.before.pc, U(1)), 4, last.before.memory.len)
          /\ AddC(Second(last.before.value_stack), OffOperand(last.before)).carry
       \/ /\ last.op \in LoadOps
          /\ last.before.value_stack # <<>>
          /\ InRange(WrappingAdd(last.before.pc, U(1)), 4, last.before.memory.len)
          /\ AddC(TopOf(last.before.value_stack), OffOperand(last.before)).carry
       \/ /\ last.op = opcode.Branch
          /\ last.before.value_stack # <<>>
          /\ AddC(TopOf(last.before.value_stack), last.before.pc).carry
       \/ /\ last.op = opcode.BranchIf
          /\ Len(last.before.value_stack) >= 2
          /\ Second(last.before.value_stack) # U(0)
          /\ AddC(TopOf(last.before.value_stack), last.before.pc).carry

\* the step has read no more than the opcode and the operand in the code,
\* written nothing and jumped nowhere
NothingAccessed ==
    /\ Len(last.log) <= 2
    /\ interp.memory = last.before.memory
    /\ interp.pc = last.before.pc

\* C36: the effective address of store_N / load_N and the target of branch /
\* branch_if are computed without 32-bit wrap-around: when base + off (or
\* pc + offset) is 2^32 or more, the step reports an out-of-range error and
\* never accesses or jumps to the wrapped address.
C36_NoWrapAround ==
    SumPastU32 =>
        /\ last.res.kind = "Err"
        /\ last.res.err \in {"AddrOutOfBounds", "InvalidJumpAddr"}
        /\ NothingAccessed

\* what the builds do instead: with overflow checks the addition panics,
\* without them the step goes on with the sum modulo 2^32
C36_PanicOrWrap ==
    SumPastU32 =>
        IF overflow_checks
        THEN last.res = ResPanic("attempt to add with overflow") /\ NothingAccessed
        ELSE last.res.kind # "Panic"

\* code_size_bytes of the module that was assembled
CodeSizeBytes == Val(HeaderField(4))

\* C37: for every source that assembles, every recorded label position lies
\* in [0, code_size_bytes), a label defined after the last statement of the
\* source included.
C37_LabelPositionsInCode ==
    Assembled =>
        /\ \A n \in DOMAIN parser.labels :
              parser.labels[n] >= 0 /\ parser.labels[n] < CodeSizeBytes
        /\ \A i \in DOMAIN labels : labels[i][2] >= 0 /\ labels[i][2] < CodeSizeBytes

\* every recorded position lies in [0, code_size_bytes], and in
\* [0, code_size_bytes) when the source ends with a statement
C37_LabelPositionsUpToEnd ==
    Assembled =>
        \A i \in DOMAIN labels :
            /\ labels[i][2] >= 0 /\ labels[i][2] <= CodeSizeBytes
            /\ (elems # <<>> /\ elems[Len(elems)].kind # "Label")
                  => labels[i][2] < CodeSizeBytes

\* the step just taken returned an error
StepFailed == last.call = "exec_next_op" /\ last.res.kind = "Err"

\* the value stack is the one before the step less the operands popped, of
\* which no instruction has more than two
OnlyOperandsPopped ==
    /\ Len(interp.value_stack) <= Len(last.before.value_stack)
    /\ Len(last.before.value_stack) - Len(interp.value_stack) <= 2
    /\ interp.value_stack = SubSeq(last.before.value_stack, 1, Len(interp.value_stack))

\* C38: whenever exec_next_op returns an error, pc, memory, globals, the
\* return stack with all locals, args, running and assertion_failed are
\* exactly as before the step; only the value stack may differ, and only by
\* operands the failing instruction had already popped.
C38_FailedStepKeepsState ==
    StepFailed =>
        /\ interp = [last.before EXCEPT !.value_stack = interp.value_stack]
        /\ OnlyOperandsPopped

\* a call has failed for its address, the address popped and args kept
C38_CallRefusedWithArgs ==
    /\ StepFailed /\ last.op = opcode.Call
    /\ last.res.err = "InvalidJumpAddr"
    /\ interp.args # <<>> /\ interp.args = last.before.args
    /\ interp.return_stack = last.before.return_stack
    /\ Len(interp.value_stack) = Len(last.before.value_stack) - 1

\* one turn of the statement loop of parse_elems
ParseLoopTurn ==
    SkipWhitespace \/ ParseConstShorthand \/ ParseStar \/ ParseLabelDef \/ ParseOpStmt

\* the turn has ended the loop or left less of the source to read
ConsumesOrEnds ==
    stage' # "parse" \/ ~rest'.some \/ Len(rest'.s) < Len(rest.s)

\* the assembly has ended with an AssembleError of the line the parser is at
ErrorCarriesLine ==
    stage = "asm_error" =>
        /\ DOMAIN error = {"kind", "line", "info"}
        /\ error.line = parser.line

\* a turn that starts at '*' can end the loop or leave less to read
StarTurnMoves ==
    (Parsing /\ Head(rest.s) = "*") => ENABLED (ParseStar /\ ConsumesOrEnds)

\* C39: Parser::parse terminates on every finite source text: each turn of
\* the statement loop consumes at least one character of the remaining
\* input or ends the loop, whatever character starts the statement, and the
\* result is a module or an AssembleError carrying the current line.
C39_ParseTerminates ==
    /\ [](StarTurnMoves /\ stage # "asm_panic" /\ ErrorCarriesLine)
    /\ [][Parsing => ConsumesOrEnds]_vars

\* the same without the turns that start at '*' and without the panics
C39_ParseTerminatesButStar ==
    /\ []ErrorCarriesLine
    /\ [][Parsing => ConsumesOrEnds]_vars

\* the interpreter holds a module that the assembler produced (or none yet)
RunsAssembledModule == src.some /\ stage # "reloaded"

\* C40: for a module produced by the assembler and a host handler that does
\* not modify the interpreter, pc <= memory.len() in every reachable state,
\* every return_addr stored in a frame is <= memory.len(), and an
\* instruction fetch at pc = memory.len() yields AddrOutOfBounds and
\* executes nothing.
C40_PcWithinMemory ==
    RunsAssembledModule =>
        /\ LeU(interp.pc, U(interp.memory.len))
        /\ \A i \in DOMAIN interp.return_stack :
              LeU(interp.return_stack[i].return_addr, U(interp.memory.len))
        /\ (last.call = "exec_next_op" /\ last.before.pc = U(last.before.memory.len))
              => /\ last.res = ResErr("AddrOutOfBounds", last.before.pc)
                 /\ interp = last.before

\* pc has reached memory.len() and the fetch there was refused, nothing done
C40_FetchAtEndOfMemory ==
    /\ RunsAssembledModule
    /\ last.call = "exec_next_op"
    /\ last.before.pc = U(last.before.memory.len)
    /\ last.res = ResErr("AddrOutOfBounds", last.before.pc)
    /\ interp = last.before
====
